---- MODULE Spec2Model ----
(***************************************************************************)
(* A model of the email ingestion and agent-invocation pipeline:           *)
(*   - integrations/agentcore_invocation.py  (invoke_agent and its client) *)
(*   - domain/email_processor.py             (EmailProcessor)              *)
(*   - sqs_email_handler.py                  (the batch lambda_handler)    *)
(*   - services/{s3,email,attachment,prompts}.py, domain/models.py         *)
(* Python values are tagged records, exceptions are (type, message) pairs, *)
(* and every external collaborator (blob store, agent runtime, file        *)
(* system) answers by a nondeterministic choice among its outcomes.        *)
(***************************************************************************)
EXTENDS Integers, Sequences, FiniteSets, TLC

(***************************************************************************)
(* Python values and exceptions                                            *)
(***************************************************************************)
PyNone == [t |-> "NoneType", s |-> "", n |-> 0]

PyStr(s) == [t |-> "str", s |-> s, n |-> 0]

PyInt(n) == [t |-> "int", s |-> "", n |-> n]

\* bool(v)
Truthy(v) ==
  CASE v.t = "str" -> v.s # ""
    [] v.t = "int" -> v.n # 0
    [] v.t = "list" -> v.n > 0
    [] OTHER -> FALSE

\* isinstance(v, str)
IsStr(v) == v.t = "str"

Exc(type, msg) == [type |-> type, msg |-> msg]

NoExc == Exc("", "")

\* str(e): a KeyError prints the repr of its key
StrOfExc(e) == IF e.type = "KeyError" THEN "'" \o e.msg \o "'" ELSE e.msg

\* botocore's ClientError for an error code answered to an operation
ClientError(code, op) ==
  [type |-> "ClientError",
   msg |-> "An error occurred (" \o code \o ") when calling the " \o op
             \o " operation: " \o code \o " error"]

\* the class of each exception the program meets, with its base class
BaseOf ==
  [ValueError |-> "Exception", JSONDecodeError |-> "ValueError",
   UnicodeDecodeError |-> "ValueError", LookupError |-> "Exception",
   KeyError |-> "LookupError", TypeError |-> "Exception",
   AttributeError |-> "Exception", OSError |-> "Exception",
   FileNotFoundError |-> "OSError", PermissionError |-> "OSError",
   ClientError |-> "Exception", BotoCoreError |-> "Exception",
   EndpointConnectionError |-> "BotoCoreError", ReadTimeoutError |-> "BotoCoreError",
   ConfigurationError |-> "Exception", AgentNotFoundException |-> "Exception",
   ThrottlingException |-> "Exception", ValidationException |-> "Exception",
   Exception |-> "BaseException"]

RECURSIVE IsSubclass(_, _)
IsSubclass(type, cls) ==
  \/ type = cls
  \/ type \in DOMAIN BaseOf /\ IsSubclass(BaseOf[type], cls)

\* isinstance(e, cls), as an except clause tests it
IsInstance(e, cls) == IsSubclass(e.type, cls)

RECURSIVE IntStr(_)
\* str(n) for a natural number
IntStr(n) ==
  LET digit == <<"0", "1", "2", "3", "4", "5", "6", "7", "8", "9">> IN
    IF n < 10 THEN digit[n + 1] ELSE IntStr(n \div 10) \o digit[(n % 10) + 1]

RECURSIVE StrOf(_, _)
\* the string of n copies of c
StrOf(c, n) == IF n = 0 THEN "" ELSE c \o StrOf(c, n - 1)

\* repr(v[:50]) of a list
Repr50(v) ==
  IF v.n = 0 THEN "[]"
  ELSE "[1" \o StrOf(", 1", (IF v.n < 50 THEN v.n ELSE 50) - 1) \o "]"

(***************************************************************************)
(* integrations/agentcore_invocation.py: configuration                     *)
(***************************************************************************)
AGENT_RUNTIME_ARN == "arn:aws:bedrock-agentcore:us-west-2:123456789012:runtime/test-agent"

\* Config(retries={'max_attempts': 3, 'mode': 'adaptive'})
RetryMaxAttempts == 3

\* botocore turns the client config's max_attempts (retries) into the total
\* number of attempts of one API call: the first request and the retries
SdkTotalAttempts == RetryMaxAttempts + 1

\* the session id floor of the agent runtime
MinSessionLen == 33

max_retries == 3

retryable_errors ==
  {"ThrottlingException", "InternalServerException", "ServiceQuotaExceededException"}

(***************************************************************************)
(* Inputs of invoke_agent and answers of the agent runtime                 *)
(***************************************************************************)
UuidDigits == {"0", "f"}

\* a generator that keeps the first group of the UUID only
_generate_session_id_short(h) == "session-" \o StrOf(h, 8)

\* _generate_session_id(): "session-" and str(uuid.uuid4()), 8-4-4-4-12
\* hexadecimal digits, here all h but the version and variant digits
_generate_session_id(h) ==
  "session-" \o StrOf(h, 8) \o "-" \o StrOf(h, 4) \o "-4" \o StrOf(h, 3)
    \o "-a" \o StrOf(h, 3) \o "-" \o StrOf(h, 12)

Prompts ==
  {PyStr("Test prompt"), PyStr(""), PyNone, PyInt(0), PyInt(5),
   [t |-> "list", s |-> "", n |-> 0], [t |-> "list", s |-> "", n |-> 1]}

SessionIds ==
  {PyNone, PyInt(7)}
    \cup {PyStr(StrOf("a", k)) :
            k \in {0, 5, MinSessionLen - 1, MinSessionLen, MinSessionLen + 5}}

\* bytes: the text they decode to, and whether they are valid UTF-8
Bytes(text, utf8) == [text |-> text, utf8 |-> utf8]

Bodies ==
  {Bytes("", TRUE),
   Bytes("{\"output\": \"Issue created\"}", TRUE),
   Bytes("{}", TRUE),
   Bytes("{\"output\": 5}", TRUE),
   Bytes("{\"output\": null}", TRUE),
   Bytes("[1]", TRUE),
   Bytes("\"ok\"", TRUE),
   Bytes("Not valid JSON", TRUE),
   Bytes("Not valid JSON", FALSE)}

\* the response dict of the API call: with or without its 'response' key
Responses ==
  {[has_response |-> TRUE, body |-> b] : b \in Bodies}
    \cup {[has_response |-> FALSE, body |-> Bytes("", TRUE)]}

ErrorCodes ==
  {"ResourceNotFoundException", "ThrottlingException", "InternalServerException",
   "ServiceQuotaExceededException", "ValidationException", "AccessDeniedException"}

WireErr(c) == [ok |-> FALSE, code |-> c, resp |-> [has_response |-> FALSE, body |-> Bytes("", TRUE)]]

WireOutcomes ==
  {[ok |-> TRUE, code |-> "", resp |-> r] : r \in Responses} \cup {WireErr(c) : c \in ErrorCodes \cup {"ReadTimeoutError"}}

(***************************************************************************)
(* json.loads on the response texts above                                  *)
(***************************************************************************)
JsonDict(has, v) == [t |-> "dict", has_output |-> has, output |-> v]

JsonOther(t) == [t |-> t, has_output |-> FALSE, output |-> PyNone]

JsonLoads(text) ==
  CASE text = "{\"output\": \"Issue created\"}" -> JsonDict(TRUE, PyStr("Issue created"))
    [] text = "{}" -> JsonDict(FALSE, PyNone)
    [] text = "{\"output\": 5}" -> JsonDict(TRUE, PyInt(5))
    [] text = "{\"output\": null}" -> JsonDict(TRUE, PyNone)
    [] text = "[1]" -> JsonOther("list")
    [] text = "\"ok\"" -> JsonOther("str")
    [] OTHER -> JsonOther("JSONDecodeError")

Returned(v) == [kind |-> "return", val |-> v, exc |-> NoExc]

Raised(e) == [kind |-> "raise", val |-> PyNone, exc |-> e]

NoOutcome == [kind |-> "", val |-> PyNone, exc |-> NoExc]

\* _parse_eventstream_response(response)
_parse_eventstream_response(response) ==
  IF ~response.has_response
    THEN Raised(Exc("Exception", "Invalid response structure from Bedrock Agent Runtime"))
  ELSE IF response.body.text = "" /\ response.body.utf8
    THEN Returned(PyStr(""))
  ELSE IF ~response.body.utf8
    THEN Raised(Exc("UnicodeDecodeError", "'utf-8' codec can't decode byte 0xff"))
  ELSE LET data == JsonLoads(response.body.text) IN
    CASE data.t = "JSONDecodeError" -> Returned(PyStr(response.body.text))
      [] data.t = "dict" ->
           IF data.has_output THEN Returned(data.output) ELSE Returned(PyStr(""))
      [] OTHER ->
           Raised(Exc("AttributeError", "'" \o data.t \o "' object has no attribute 'get'"))

(***************************************************************************)
(* Text. A text is a sequence of chunks (a rope): each chunk is a non-empty *)
(* string, and every character the code inspects on its own (braces, angle *)
(* brackets, path and URL characters, control characters) is a chunk of    *)
(* its own. Join gives the string a text stands for.                       *)
(***************************************************************************)
RECURSIVE Join(_)
Join(txt) == IF txt = <<>> THEN "" ELSE Head(txt) \o Join(Tail(txt))

(***************************************************************************)
(* SQS records and SES notifications                                       *)
(***************************************************************************)
\* a header field of commonHeaders: absent, a list of texts, or one text
Fld(k, items) == [k |-> k, items |-> items]

BaseNotification ==
  [has_mail |-> TRUE, mail_is_dict |-> TRUE, has_receipt |-> TRUE,
   from |-> Fld("list", << <<"sender@example.com">> >>),
   to |-> Fld("list", << <<"recipient@example.com">> >>),
   has_subject |-> TRUE, subject |-> <<"Bug ", "{", "x", "}">>,
   has_return_path |-> TRUE, returnPath |-> <<"bounce@example.com">>,
   has_header_return_path |-> FALSE, headerReturnPath |-> <<"rp@example.com">>,
   timestamp |-> <<"2024-11-05T10:30:00.000Z">>,
   has_bucket |-> TRUE, bucketName |-> <<"ses-emails">>,
   has_key |-> TRUE, objectKey |-> <<"emails", "/", "k1">>]


\* the JSON text of a record's body: not JSON at all, a JSON list, or a JSON
\* object that is the notification or wraps it in an SNS envelope
\* (Type = "Notification" with a Message that is JSON text itself)
SqsBody(kind, wrapped, inner, n) ==
  [kind |-> kind, wrapped |-> wrapped, inner |-> inner, n |-> n]


SqsRecord(has_id, id, has_body, body) ==
  [has_id |-> has_id, messageId |-> id, has_body |-> has_body, body |-> body]


\* a read of the key with no default
MessageIdOf_no_default(record) == record.messageId

\* record.get('messageId', 'UNKNOWN')
MessageIdOf(record) == IF record.has_id THEN record.messageId ELSE <<"UNKNOWN">>

EmailMetadata(id, from, to, subject, ts, bucket, key) ==
  [message_id |-> id, from_address |-> from, to_addresses |-> to,
   subject |-> subject, timestamp |-> ts, bucket_name |-> bucket, object_key |-> key]

NoMetadata == EmailMetadata(<<>>, <<>>, <<>>, <<>>, <<>>, <<>>, <<>>)

\* the result of a stage: a value or a raised exception
Ok(v) == [ok |-> TRUE, val |-> v, exc |-> NoExc]

Fail(v, e) == [ok |-> FALSE, val |-> v, exc |-> e]

JSONDecodeError == Exc("JSONDecodeError", "Expecting value: line 1 column 1 (char 0)")

\* a check of the mail section only
MissingSections_mail_only(n) == ~n.has_mail

\* line 119: 'mail' not in ses_notification or 'receipt' not in ses_notification
MissingSections(n) == ~n.has_mail \/ ~n.has_receipt

\* a check that the two keys are there, whatever their values
MissingLocation_absent_only(n) == ~n.has_bucket \/ ~n.has_key

\* lines 149-153: action.get('bucketName'), action.get('objectKey') and
\* not bucket_name or not object_key
MissingLocation(n) ==
  ~n.has_bucket \/ n.bucketName = <<>> \/ ~n.has_key \/ n.objectKey = <<>>

\* _parse_ses_notification lines 118-164: validation and extraction, once the
\* notification object is at hand
MetadataOf(id, n) ==
  LET from_address ==
        IF n.from.k = "list" /\ Len(n.from.items) > 0 THEN n.from.items[1]
        ELSE IF n.from.k = "str" /\ n.from.items[1] # <<>> THEN n.from.items[1]
        ELSE IF n.has_return_path THEN n.returnPath
        ELSE <<"Unknown">>
      to_addresses ==
        IF n.to.k = "list" THEN n.to.items
        ELSE IF n.to.k = "str" /\ n.to.items[1] # <<>> THEN n.to.items
        ELSE <<>>
  IN IF MissingSections(n)
       THEN Fail(NoMetadata,
                 Exc("ValueError", "SES notification missing 'mail' or 'receipt' fields"))
     ELSE IF ~n.mail_is_dict
       THEN Fail(NoMetadata, Exc("AttributeError", "'NoneType' object has no attribute 'get'"))
     ELSE IF MissingLocation(n)
       THEN Fail(NoMetadata, Exc("ValueError", "Missing S3 location in SES notification"))
     ELSE Ok(EmailMetadata(id, from_address, to_addresses,
                           IF n.has_subject THEN n.subject ELSE <<"No Subject">>,
                           n.timestamp, n.bucketName, n.objectKey))

\* EmailProcessor._parse_ses_notification(record)
_parse_ses_notification(record) ==
  IF ~record.has_body THEN Fail(NoMetadata, Exc("KeyError", "body"))
  ELSE IF record.body.kind = "invalid" THEN Fail(NoMetadata, JSONDecodeError)
  ELSE IF record.body.kind = "list"
    THEN Fail(NoMetadata, Exc("AttributeError", "'list' object has no attribute 'get'"))
  ELSE IF record.body.wrapped /\ record.body.inner = "invalid"
    THEN Fail(NoMetadata, JSONDecodeError)
  ELSE MetadataOf(MessageIdOf(record), record.body.n)

\* sqs_email_handler.lambda_handler, steps 1 to 4 for one record
LambdaParse(record) ==
  LET n == record.body.n IN
    IF ~record.has_body THEN Fail(<<>>, Exc("KeyError", "body"))
    ELSE IF record.body.kind = "invalid" THEN Fail(<<>>, JSONDecodeError)
    ELSE IF record.body.kind = "list"
      THEN Fail(<<>>, Exc("AttributeError", "'list' object has no attribute 'get'"))
    ELSE IF record.body.wrapped /\ record.body.inner = "invalid"
      THEN Fail(<<>>, JSONDecodeError)
    ELSE IF MissingSections(n)
      THEN Fail(<<>>, Exc("ValueError", "SES notification missing 'mail' or 'receipt' fields"))
    ELSE IF ~n.mail_is_dict
      THEN Fail(<<>>, Exc("AttributeError", "'NoneType' object has no attribute 'get'"))
    ELSE IF MissingLocation(n)
      THEN Fail(<<>>, Exc("ValueError", "Missing S3 location in SES notification"))
    ELSE Ok([subject |-> IF n.has_subject THEN n.subject ELSE <<"No Subject">>,
             from_address |->
               IF n.from.k = "list" /\ Len(n.from.items) > 0 THEN n.from.items[1]
               ELSE IF n.has_header_return_path THEN n.headerReturnPath
               ELSE <<"Unknown">>,
             to_addresses |-> n.to,
             timestamp |-> n.timestamp,
             bucket_name |-> n.bucketName,
             object_key |-> n.objectKey])

(***************************************************************************)
(* services/s3.py: fetch_email_from_s3                                     *)
(***************************************************************************)
S3GetOutcomes == {"ok", "NoSuchKey", "NoSuchBucket", "AccessDenied", "ReadTimeoutError"}

\* a fetch that hands back the stored bytes whatever get_object answers
fetch_email_from_s3_ignoring_errors(bucket, key, o, email) == Ok(email)

\* fetch_email_from_s3(bucket, key) when get_object answers o (email: the body)
fetch_email_from_s3(bucket, key, o, email) ==
  CASE o = "ok" -> Ok(email)
    [] o = "NoSuchKey" ->
         Fail(email, Exc("ValueError", "Email file not found in S3: " \o Join(key)))
    [] o = "NoSuchBucket" ->
         Fail(email, Exc("ValueError", "S3 bucket not found: " \o Join(bucket)))
    [] o = "AccessDenied" -> Fail(email, ClientError(o, "GetObject"))
    [] OTHER -> Fail(email, Exc(o, "Read timeout on endpoint URL"))

(***************************************************************************)
(* services/email.py: extract_email_body                                   *)
(***************************************************************************)
\* a MIME part: content type, Content-Disposition, filename (<<>>: none), the
\* text of a text part (what get_content() gives, or, when get_content() raises
\* on an unknown charset, what decoding the payload as UTF-8 with its invalid
\* bytes dropped gives), whether get_content() succeeds, and the decoded payload
\* as bytes (an identity and a length)
Part(ctype, disp, filename, text, decodes, payload_id, size) ==
  [ctype |-> ctype, disp |-> disp, filename |-> filename, text |-> text,
   decodes |-> decodes, payload |-> [id |-> payload_id, len |-> size]]

TextPart(ctype, text, decodes) == Part(ctype, "", <<>>, text, decodes, "text", Len(text))

\* a message: one part when not multipart, else the parts walk() visits after
\* the container itself
Email(multipart, parts) == [multipart |-> multipart, parts |-> parts]

DEFAULT_MAX_FILE_SIZE_MB == 20

MAX_FILE_SIZE_BYTES == DEFAULT_MAX_FILE_SIZE_MB * 1024 * 1024

Emails ==
  {Email(FALSE, <<TextPart("text/plain", <<"Hello">>, TRUE)>>),
   Email(FALSE, <<TextPart("text/html", <<"<", "p", ">", "Hi">>, TRUE)>>),
   Email(FALSE, <<TextPart("text/plain", <<"Hello">>, FALSE)>>),
   Email(FALSE, <<Part("application/pdf", "", <<>>, <<>>, TRUE, "pdf", 10)>>),
   Email(TRUE, <<TextPart("text/plain", <<"It fails with ", "{", "err", "}">>, TRUE),
                 TextPart("text/html", <<"<", "b", ">", "It fails">>, TRUE),
                 Part("image/png", "attachment; filename=\"a/b.png\"",
                      <<"a", "/", "b.png">>, <<>>, TRUE, "png1", 1024),
                 Part("application/pdf", "inline; filename=\"big.pdf\"",
                      <<"big.pdf">>, <<>>, TRUE, "pdf1", MAX_FILE_SIZE_BYTES + 1),
                 Part("application/pdf", "attachment; filename=\"c.pdf\"",
                      <<"c.pdf">>, <<>>, TRUE, "pdf3", MAX_FILE_SIZE_BYTES)>>),
   Email(TRUE, <<TextPart("text/plain", <<>>, TRUE),
                 TextPart("text/plain", <<"second">>, TRUE),
                 Part("image/png", "", <<"a_b.png">>, <<>>, TRUE, "png2", MAX_FILE_SIZE_BYTES),
                 Part("text/plain", "attachment", <<>>, <<"note">>, TRUE, "txt1", 4)>>),
   Email(TRUE, <<TextPart("text/plain", <<"lossy">>, FALSE),
                 Part("image/png", "attachment; filename=\"a_b.png\"",
                      <<"a_b.png">>, <<>>, TRUE, "png3", 0),
                 Part("image/png", "attachment; filename=\"a/b.png\"",
                      <<"a", "/", "b.png">>, <<>>, TRUE, "png4", 512)>>),
   Email(TRUE, <<Part("application/pdf", "attachment; filename=\"r.pdf\"",
                      <<"r.pdf">>, <<>>, TRUE, "pdf2", 2048)>>)}

\* "attachment" in content_disposition / "inline" in content_disposition
DispHas(part, word) ==
  \/ part.disp = word
  \/ /\ part.filename # <<>>
     /\ part.disp = word \o "; filename=\"" \o Join(part.filename) \o "\""

AttachmentDict(part) ==
  [filename |-> part.filename, content_type |-> part.ctype,
   size |-> part.payload.len, has_content |-> TRUE, content |-> part.payload,
   has_url |-> FALSE, url |-> <<>>]

Extracted(text, html, atts) == [text_body |-> text, html_body |-> html, attachments |-> atts]

\* one iteration of the walk over a multipart message's parts
WalkPart(res, part) ==
  IF DispHas(part, "attachment") \/ (DispHas(part, "inline") /\ part.filename # <<>>)
    THEN IF part.filename # <<>>
           THEN [res EXCEPT !.attachments = Append(@, AttachmentDict(part))]
           ELSE res
  ELSE IF part.filename # <<>> /\ part.ctype \in {"image/png", "application/pdf"}
    THEN [res EXCEPT !.attachments = Append(@, AttachmentDict(part))]
  ELSE IF part.ctype = "text/plain" /\ res.text_body = <<>>
    THEN IF part.decodes \/ part.payload.len > 0
           THEN [res EXCEPT !.text_body = part.text]
           ELSE res
  ELSE IF part.ctype = "text/html" /\ res.html_body = <<>>
    THEN IF part.decodes \/ part.payload.len > 0
           THEN [res EXCEPT !.html_body = part.text]
           ELSE res
  ELSE res

RECURSIVE Walk(_, _)
Walk(res, parts) ==
  IF parts = <<>> THEN res ELSE Walk(WalkPart(res, Head(parts)), Tail(parts))

\* extract_email_body(email_content)
extract_email_body(email) ==
  IF email.multipart THEN Ok(Walk(Extracted(<<>>, <<>>, <<>>), email.parts))
  ELSE LET part == email.parts[1] IN
    IF part.ctype \in {"text/plain", "text/html"} /\ ~part.decodes
      THEN Fail(Extracted(<<>>, <<>>, <<>>), Exc("LookupError", "unknown encoding: x-unknown"))
    ELSE IF part.ctype = "text/plain" THEN Ok(Extracted(part.text, <<>>, <<>>))
    ELSE IF part.ctype = "text/html" THEN Ok(Extracted(<<>>, part.text, <<>>))
    ELSE Ok(Extracted(<<>>, <<>>, <<>>))

(***************************************************************************)
(* domain/models.py                                                        *)
(***************************************************************************)
\* a body choice that prefers the HTML body
body_for_agent_html_first(content) ==
  IF content.html_body # <<>> THEN content.html_body ELSE content.text_body

\* EmailContent.body_for_agent
body_for_agent(content) ==
  IF content.text_body # <<>> THEN content.text_body
  ELSE IF content.html_body # <<>> THEN content.html_body
  ELSE <<>>

\* a content check that lets every email through
has_content_unchecked(content) == TRUE

\* EmailContent.has_content
has_content(content) == content.text_body # <<>> \/ content.html_body # <<>>

\* EmailContent.attachments_with_urls
\* a listing of every attachment, published or not
attachments_with_urls_all(content) == content.attachments

attachments_with_urls(content) ==
  SelectSeq(content.attachments, LAMBDA a : a.has_url /\ a.url # <<>>)

ProcessingResult(success, id, has_meta, meta, has_resp, resp, has_err, err) ==
  [success |-> success, message_id |-> id, has_metadata |-> has_meta,
   metadata |-> meta, has_agent_response |-> has_resp, agent_response |-> resp,
   has_error_message |-> has_err, error_message |-> err]

NoResult == ProcessingResult(FALSE, <<>>, FALSE, NoMetadata, FALSE, PyNone, FALSE, "")

\* a flag that follows the outcome
should_delete_message_on_success(result) == result.success

\* ProcessingResult.should_delete_message
should_delete_message(result) == TRUE

(***************************************************************************)
(* services/attachment.py                                                  *)
(***************************************************************************)
\* the environment of a deployment: ATTACHMENTS_S3_BUCKET,
\* ATTACHMENTS_CLOUDFRONT_DOMAIN, ENVIRONMENT, PROMPT_BUCKET ("": not set), and
\* the template packaged as prompts/github_issue.txt, if any
Deployment(bucket, domain, prompt_bucket, local) ==
  [ATTACHMENTS_BUCKET |-> bucket, CLOUDFRONT_DOMAIN |-> domain, ENVIRONMENT |-> "dev",
   PROMPT_BUCKET |-> prompt_bucket, local |-> local]

\* is_configured()
\* a check that is content with one of the two settings
is_configured_either(env) == env.ATTACHMENTS_BUCKET # "" \/ env.CLOUDFRONT_DOMAIN # ""

is_configured(env) == env.ATTACHMENTS_BUCKET # "" /\ env.CLOUDFRONT_DOMAIN # ""

RECURSIVE Strip(_)
\* value.strip('<>')
Strip(txt) ==
  IF txt # <<>> /\ Head(txt) \in {"<", ">"} THEN Strip(Tail(txt))
  ELSE IF txt # <<>> /\ txt[Len(txt)] \in {"<", ">"}
    THEN Strip(SubSeq(txt, 1, Len(txt) - 1))
  ELSE txt

RECURSIVE ReplaceAndDrop(_)
ReplaceAndDrop(txt) ==
  IF txt = <<>> THEN <<>>
  ELSE IF Head(txt) \in {"/", "\\", "#", "?", "&", "%"}
    THEN <<"_">> \o ReplaceAndDrop(Tail(txt))
  ELSE IF Head(txt) \in {"\n", "\r", "\t"} THEN ReplaceAndDrop(Tail(txt))
  ELSE <<Head(txt)>> \o ReplaceAndDrop(Tail(txt))

\* _sanitize_for_s3_key(value)
_sanitize_for_s3_key(value) == ReplaceAndDrop(Strip(value))

PutOutcomes == {"ok", "AccessDenied", "EndpointConnectionError"}

\* a ceiling that the size must stay below
TooLarge_at_ceiling(content) == content.len >= MAX_FILE_SIZE_BYTES

\* line 78: len(content) > MAX_FILE_SIZE_BYTES
TooLarge(content) == content.len > MAX_FILE_SIZE_BYTES

\* a handler for the service's error responses alone
UploadCatches_client_errors_only(e) == IsInstance(e, "ClientError")

\* lines 106-111: except ClientError, then except Exception
UploadCatches(e) == IsInstance(e, "ClientError") \/ IsInstance(e, "Exception")

\* upload_attachment(filename, content, content_type, message_id) when
\* put_object answers o: the url returned (<<>>: None), the put made, and the
\* exception that leaves the function, if any
upload_attachment(env, filename, content, message_id, o) ==
  IF ~is_configured(env) THEN [url |-> <<>>, puts |-> <<>>, exc |-> NoExc]
  ELSE IF TooLarge(content) THEN [url |-> <<>>, puts |-> <<>>, exc |-> NoExc]
  ELSE LET key == <<"attachments", "/", env.ENVIRONMENT, "/">>
                    \o _sanitize_for_s3_key(message_id) \o <<"/">>
                    \o _sanitize_for_s3_key(filename)
           put == [key |-> Join(key), body |-> content, ok |-> o = "ok"]
           e == IF o = "AccessDenied" THEN ClientError(o, "PutObject")
                ELSE Exc(o, "Could not connect to the endpoint URL")
       IN IF o = "ok"
            THEN [url |-> <<"https:", "/", "/", env.CLOUDFRONT_DOMAIN, "/">> \o key,
                  puts |-> <<put>>, exc |-> NoExc]
            ELSE [url |-> <<>>, puts |-> <<put>>,
                  exc |-> IF UploadCatches(e) THEN NoExc ELSE e]

\* a loop body that sets the url and keeps the content
UploadOne_keeping_content(env, message_id, att, o) ==
  IF ~att.has_content THEN [att |-> att, puts |-> <<>>, exc |-> NoExc]
  ELSE LET r == upload_attachment(env, att.filename, att.content, message_id, o) IN
    IF r.url # <<>>
      THEN [att |-> [att EXCEPT !.has_url = TRUE, !.url = r.url], puts |-> r.puts,
            exc |-> NoExc]
      ELSE [att |-> att, puts |-> r.puts, exc |-> r.exc]

\* the loop body of _upload_attachments for one attachment
UploadOne(env, message_id, att, o) ==
  IF ~att.has_content THEN [att |-> att, puts |-> <<>>, exc |-> NoExc]
  ELSE LET r == upload_attachment(env, att.filename, att.content, message_id, o) IN
    IF r.url # <<>>
      THEN [att |-> [att EXCEPT !.has_url = TRUE, !.url = r.url,
                                !.has_content = FALSE,
                                !.content = [id |-> "", len |-> 0]],
            puts |-> r.puts, exc |-> NoExc]
      ELSE [att |-> att, puts |-> r.puts, exc |-> r.exc]

RECURSIVE UploadAll(_, _, _, _)
\* the loop of _upload_attachments: os[i] is put_object's answer for the i-th;
\* an exception out of upload_attachment ends the loop
UploadAll(env, message_id, atts, os) ==
  IF atts = <<>> THEN [atts |-> <<>>, puts |-> <<>>, exc |-> NoExc]
  ELSE LET one == UploadOne(env, message_id, Head(atts), Head(os))
           rest == UploadAll(env, message_id, Tail(atts), Tail(os))
       IN IF one.exc # NoExc
            THEN [atts |-> <<one.att>> \o Tail(atts), puts |-> one.puts, exc |-> one.exc]
            ELSE [atts |-> <<one.att>> \o rest.atts, puts |-> one.puts \o rest.puts,
                  exc |-> rest.exc]

\* EmailProcessor._upload_attachments(metadata, content)
_upload_attachments(env, metadata, content, os) ==
  IF ~is_configured(env) \/ content.attachments = <<>>
    THEN [content |-> content, puts |-> <<>>, exc |-> NoExc]
    ELSE LET r == UploadAll(env, metadata.message_id, content.attachments, os)
         IN [content |-> [content EXCEPT !.attachments = r.atts], puts |-> r.puts,
             exc |-> r.exc]

(***************************************************************************)
(* services/prompts.py                                                     *)
(***************************************************************************)
CACHE_TTL_SECONDS == 300

\* a template: literal text and {name} placeholders
Lit(txt) == [k |-> "lit", txt |-> txt, name |-> ""]

Var(name) == [k |-> "var", txt |-> <<>>, name |-> name]

LocalTemplate ==
  <<Lit(<<"Create an issue. From: ">>), Var("from_address"), Lit(<<" Subject: ">>),
    Var("subject"), Lit(<<" Body: ">>), Var("body"), Lit(<<" At: ">>),
    Var("timestamp"), Lit(<<" Files: ">>), Var("attachments")>>

RepoTemplate ==
  <<Lit(<<"Repository ">>), Var("repository"), Lit(<<": ">>), Var("body")>>

RemoteTemplate == <<Lit(<<"Override. ">>), Var("subject"), Lit(<<": ">>), Var("body")>>

\* what prompts/<name> holds in a deployment: a template, no file, or a file
\* that cannot be read
LocalFile(kind, tpl) == [kind |-> kind, tpl |-> tpl]

\* the prompt names load_prompt is asked for
PromptNames == {"github_issue.txt", "triage.txt"}

\* the answers of the remote get_object for a prompt
RemoteOutcomes == {"ok", "NoSuchKey", "EndpointConnectionError"}

NoEntry == [has |-> FALSE, content |-> <<>>, time |-> 0]

Entry(content, time) == [has |-> TRUE, content |-> content, time |-> time]

\* a cache check that still serves an entry aged exactly the TTL
CacheHit_inclusive(entry, current_time) ==
  entry.has /\ current_time - entry.time <= CACHE_TTL_SECONDS

\* the cache check of load_prompt (lines 127-142)
CacheHit(entry, current_time) ==
  entry.has /\ current_time - entry.time < CACHE_TTL_SECONDS

\* _load_from_s3(prompt_name) when get_object answers o
_load_from_s3(env, o) ==
  IF env.PROMPT_BUCKET = ""
    THEN Fail(<<>>, Exc("ValueError", "PROMPT_BUCKET environment variable not set"))
  ELSE IF o = "ok" THEN Ok(RemoteTemplate)
  ELSE IF o = "NoSuchKey" THEN Fail(<<>>, ClientError(o, "GetObject"))
  ELSE Fail(<<>>, Exc(o, "Could not connect to the endpoint URL"))

\* _load_from_filesystem(prompt_name)
_load_from_filesystem(env) ==
  IF env.local.kind = "file" THEN Ok(env.local.tpl)
  ELSE IF env.local.kind = "missing"
    THEN Fail(<<>>, Exc("FileNotFoundError", "[Errno 2] No such file or directory"))
  ELSE Fail(<<>>, Exc("PermissionError", "[Errno 13] Permission denied"))

\* a loader that reads the packaged file first and asks the bucket only when
\* the file cannot be had
LoadFromSources_local_first(env, prompt_name, o) ==
  LET remote == _load_from_s3(env, o)
      local == _load_from_filesystem(env)
  IN IF local.ok THEN [res |-> local, remote |-> 0, local |-> 1]
     ELSE [res |-> remote, remote |-> 1, local |-> 1]

\* load_prompt(prompt_name) past the cache check (lines 144-169): the template,
\* or the exception that leaves load_prompt, and the sources tried
LoadFromSources(env, prompt_name, o) ==
  LET remote == _load_from_s3(env, o)
      local == _load_from_filesystem(env)
      tried_remote == IF env.PROMPT_BUCKET # "" THEN 1 ELSE 0
  IN IF env.PROMPT_BUCKET # "" /\ remote.ok
       THEN [res |-> remote, remote |-> tried_remote, local |-> 0]
     ELSE IF env.PROMPT_BUCKET # ""
             /\ ~IsInstance(remote.exc, "ClientError")
             /\ ~IsInstance(remote.exc, "ValueError")
       THEN [res |-> remote, remote |-> tried_remote, local |-> 0]
     ELSE IF local.ok \/ ~IsInstance(local.exc, "FileNotFoundError")
       THEN [res |-> local, remote |-> tried_remote, local |-> 1]
     ELSE [res |-> Fail(<<>>, Exc("ValueError",
                     "Prompt '" \o prompt_name
                       \o "' not found in S3 or local filesystem")),
           remote |-> tried_remote, local |-> 1]

\* a load that forgets the cached entry when it fails
load_prompt_dropping_entry(env, prompt_name, entry, current_time, o, use_cache) ==
  IF use_cache /\ CacheHit(entry, current_time)
    THEN [res |-> Ok(entry.content), entry |-> entry, remote |-> 0, local |-> 0]
    ELSE LET r == LoadFromSources(env, prompt_name, o)
         IN [res |-> r.res,
             entry |-> IF r.res.ok THEN Entry(r.res.val, current_time) ELSE NoEntry,
             remote |-> r.remote, local |-> r.local]

\* load_prompt(prompt_name, use_cache) on the entry cached under prompt_name:
\* the result, the entry afterwards, and the fetches made
load_prompt(env, prompt_name, entry, current_time, o, use_cache) ==
  IF use_cache /\ CacheHit(entry, current_time)
    THEN [res |-> Ok(entry.content), entry |-> entry, remote |-> 0, local |-> 0]
    ELSE LET r == LoadFromSources(env, prompt_name, o)
         IN [res |-> r.res,
             entry |-> IF r.res.ok THEN Entry(r.res.val, current_time) ELSE entry,
             remote |-> r.remote, local |-> r.local]

RECURSIVE EscapeBraces(_)
\* value.replace('{', '{{').replace('}', '}}')
EscapeBraces(txt) ==
  IF txt = <<>> THEN <<>>
  ELSE IF Head(txt) \in {"{", "}"}
    THEN <<Head(txt), Head(txt)>> \o EscapeBraces(Tail(txt))
  ELSE <<Head(txt)>> \o EscapeBraces(Tail(txt))

RECURSIVE Substitute_blank_for_missing(_, _)
\* a substitution that puts nothing where a placeholder has no value
Substitute_blank_for_missing(template, variables) ==
  IF template = <<>> THEN Ok(<<>>)
  ELSE LET tok == Head(template)
           rest == Substitute_blank_for_missing(Tail(template), variables)
       IN Ok((IF tok.k = "lit" THEN tok.txt
              ELSE IF tok.name \in DOMAIN variables THEN variables[tok.name]
              ELSE <<>>) \o rest.val)

RECURSIVE Substitute(_, _)
\* template.format(**variables): the first placeholder without a value raises
\* KeyError
Substitute(template, variables) ==
  IF template = <<>> THEN Ok(<<>>)
  ELSE LET tok == Head(template)
           rest == Substitute(Tail(template), variables)
       IN IF tok.k = "var" /\ tok.name \notin DOMAIN variables
            THEN Fail(<<>>, Exc("KeyError", tok.name))
          ELSE IF ~rest.ok THEN rest
          ELSE Ok((IF tok.k = "var" THEN variables[tok.name] ELSE tok.txt) \o rest.val)

\* format_prompt(template, **variables)
format_prompt(template, variables) ==
  LET escaped == [n \in DOMAIN variables |-> EscapeBraces(variables[n])]
      r == Substitute(template, escaped)
  IN IF r.ok THEN r
     ELSE Fail(<<>>, Exc("ValueError", "Missing required variable in prompt: " \o r.exc.msg))

(***************************************************************************)
(* State                                                                   *)
(***************************************************************************)
VARIABLES
  ipc,          \* position in invoke_agent: idle, call, handle, sleep, done
  ia_caller,    \* who called invoke_agent: direct, processor, handler
  inv_prompt,   \* the prompt argument
  arg_session,  \* the session_id argument
  session_id,   \* the session id in use after validation / generation
  attempt,      \* the retry loop's attempt
  calls,        \* API calls made by this invoke_agent call
  wire,         \* requests put on the wire by this invoke_agent call
  sleeps,       \* time.sleep calls made by this invoke_agent call
  fail_codes,   \* error codes the API calls of this invoke_agent call failed with
  api_result,   \* the answer of the API call being handled
  last_request, \* the parameters of the last API call
  outcome,      \* how invoke_agent ended: a returned value or a raised exception
  env,           \* the deployment: environment variables and packaged files
  _prompt_cache, \* prompts._prompt_cache: the entry of each prompt name
  clock,         \* the last reading of time.time()
  last_load,     \* the last call of the prompts service and what it did
  cleared,       \* the cache as the last clear_cache found it
  trace,         \* the calls the run in progress has made so far, in order
  ppc,           \* position in process_ses_record: idle, fetch, upload, agent, invoking, done
  p_record,      \* the record process_ses_record was called with
  message_id,    \* its local message_id
  metadata,      \* its local metadata
  email_content, \* its local email_content
  puts,          \* the put_object calls its uploads made
  result,        \* the ProcessingResult it returned
  p_raised,      \* the exception a stage of it raised, if any
  p_escaped,     \* the exception that left it, if any
  hpc,           \* position in lambda_handler: idle, record, fetch, agent, invoking, log, return, returned
  batch,         \* event['Records']
  idx,           \* the index of the record the loop is at
  batch_item_failures, \* the list lambda_handler collects
  h_response,    \* what lambda_handler returned (<<>>: nothing yet)
  h_message_id,  \* the loop's local message_id
  h_fields,      \* the loop's locals subject, from_address, to_addresses, timestamp, bucket_name, object_key
  email_body,    \* the loop's local email_body
  agent_response, \* the loop's local agent_response
  fmt,           \* a call of format_prompt: its arguments and its result
  view,          \* an EmailContent and what its properties give
  loads          \* the calls of load_prompt under way, one per caller: where each is and its locals

invVars ==
  <<ipc, ia_caller, inv_prompt, arg_session, session_id, attempt, calls, wire,
    sleeps, fail_codes, api_result, last_request, outcome>>

sharedVars == <<env, _prompt_cache, clock, last_load, cleared, trace, loads>>

procVars ==
  <<ppc, p_record, message_id, metadata, email_content, puts, result, p_raised, p_escaped>>

lambdaVars ==
  <<hpc, batch, idx, batch_item_failures, h_response, h_message_id, h_fields,
    email_body, agent_response>>

fnVars == <<fmt, view>>

NotCalled == Fail(<<>>, Exc("", "not called"))

\* no function called on its own
FnInit ==
  /\ fmt = [template |-> <<>>, variables |-> <<>>, res |-> NotCalled]
  /\ view = [content |-> Extracted(<<>>, <<>>, <<>>),
             result |-> NoResult,
             email |-> Email(FALSE, <<>>),
             props |-> [called |-> FALSE, body_for_agent |-> <<>>,
                        has_content |-> FALSE, should_delete_message |-> FALSE,
                        extracted |-> Extracted(<<>>, <<>>, <<>>),
                             raised |-> NoExc]]

NoRequest ==
  [op |-> "", agentId |-> "", agentAliasId |-> "", sessionId |-> PyNone,
   inputText |-> PyNone]

InvInit ==
  /\ ipc = "idle"
  /\ ia_caller = ""
  /\ inv_prompt = PyNone
  /\ arg_session = PyNone
  /\ session_id = PyNone
  /\ attempt = 0
  /\ calls = 0
  /\ wire = 0
  /\ sleeps = 0
  /\ fail_codes = {}
  /\ api_result = WireErr("")
  /\ last_request = NoRequest
  /\ outcome = NoOutcome

\* the caller has taken the result of invoke_agent: nothing of the call is left
InvForget ==
  /\ ipc' = "idle"
  /\ ia_caller' = ""
  /\ inv_prompt' = PyNone
  /\ arg_session' = PyNone
  /\ session_id' = PyNone
  /\ attempt' = 0
  /\ calls' = 0
  /\ wire' = 0
  /\ sleeps' = 0
  /\ fail_codes' = {}
  /\ api_result' = WireErr("")
  /\ last_request' = NoRequest
  /\ outcome' = NoOutcome

(***************************************************************************)
(* invoke_agent                                                            *)
(***************************************************************************)
\* the prompt check (lines 189-194): the message's f-string slices the prompt
\* when it is truthy, which only a sequence supports
PromptCheck(prompt) ==
  IF ~Truthy(prompt) \/ ~IsStr(prompt)
    THEN IF Truthy(prompt) /\ prompt.t \notin {"str", "list"}
           THEN Exc("TypeError", "'" \o prompt.t \o "' object is not subscriptable")
           ELSE Exc("ValidationException",
                    "Prompt must be a non-empty string. Got: " \o prompt.t
                      \o " with value: " \o (IF Truthy(prompt) THEN Repr50(prompt) ELSE "None"))
    ELSE NoExc

\* the session check (lines 196-207)
SessionCheck(session) ==
  IF session = PyNone THEN NoExc
  ELSE IF ~IsStr(session)
    THEN Exc("ValidationException", "session_id must be a string or None. Got: " \o session.t)
  ELSE IF Len(session.s) < MinSessionLen
    THEN Exc("ValidationException",
             "session_id must be at least 33 characters long (Bedrock requirement). "
               \o "Got: " \o IntStr(Len(session.s)) \o " characters")
  ELSE NoExc

\* invoke_agent up to its retry loop: validation and session id generation;
\* h is the random part of a generated session id
IaBegin(caller, prompt, session, h) ==
  /\ ipc = "idle"
  /\ ia_caller' = caller
  /\ inv_prompt' = prompt
  /\ arg_session' = session
  /\ attempt' = 0
  /\ calls' = 0
  /\ wire' = 0
  /\ sleeps' = 0
  /\ fail_codes' = {}
  /\ api_result' = WireErr("")
  /\ last_request' = NoRequest
  /\ LET e1 == PromptCheck(prompt)
         e2 == SessionCheck(session)
     IN IF e1 # NoExc
          THEN /\ ipc' = "done"
               /\ outcome' = Raised(e1)
               /\ session_id' = session
        ELSE IF e2 # NoExc
          THEN /\ ipc' = "done"
               /\ outcome' = Raised(e2)
               /\ session_id' = session
        ELSE /\ ipc' = "call"
             /\ outcome' = NoOutcome
             /\ session_id' = IF session = PyNone
                                THEN PyStr(_generate_session_id(h))
                                ELSE session

\* payload = json.dumps({"prompt": prompt}) (line 217)
payload(prompt) == PyStr("{\"prompt\": \"" \o prompt.s \o "\"}")

\* the API call the loop body makes (lines 232-237)
ApiRequest(prompt, session) ==
  [op |-> "invoke_agent", agentId |-> AGENT_RUNTIME_ARN,
   agentAliasId |-> "TSTALIASID", sessionId |-> session, inputText |-> prompt]

\* what the SDK does for one API call whose last answer is o after k requests:
\* it resends while the answer is an error it retries on and its attempts last,
\* so k - 1 retried answers precede o, and a retried error that comes out as the
\* answer has used up every attempt
SdkRun(o, k) ==
  /\ k \in 1..SdkTotalAttempts
  /\ (~o.ok /\ o.code \in {"ThrottlingException", "InternalServerException",
                            "ReadTimeoutError"}
        => k = SdkTotalAttempts)

\* the loop body calls the API (lines 232-237): the SDK puts k requests on the
\* wire and hands the last answer o to the caller
IaCall(o, k) ==
  /\ ipc = "call"
  /\ SdkRun(o, k)
  /\ calls' = calls + 1
  /\ wire' = wire + k
  /\ last_request' = ApiRequest(inv_prompt, session_id)
  /\ api_result' = o
  /\ ipc' = "handle"
  /\ UNCHANGED <<ia_caller, inv_prompt, arg_session, session_id, attempt,
                 sleeps, fail_codes, outcome>>
  /\ UNCHANGED <<sharedVars, procVars, lambdaVars, fnVars>>

\* the except ClientError handler (lines 252-295)
OnClientError(code, att) ==
  IF code = "ResourceNotFoundException"
    THEN [next |-> "done",
          out |-> Raised(Exc("AgentNotFoundException",
                             "Agent not found: " \o AGENT_RUNTIME_ARN
                               \o ". Verify the agent exists and is active. Error: "
                               \o code \o " error"))]
  ELSE IF code \in retryable_errors
    THEN IF att < max_retries - 1
           THEN [next |-> "sleep", out |-> NoOutcome]
           ELSE [next |-> "done",
                 out |-> Raised(Exc("ThrottlingException",
                                    "Request throttled by Bedrock service after "
                                      \o IntStr(max_retries) \o " attempts. "
                                      \o "Retry after a longer delay. Error: "
                                      \o code \o " error"))]
  ELSE [next |-> "done", out |-> Raised(ClientError(code, "InvokeAgent"))]

\* the loop body after the API call answered: parse and return, or handle the error
IaHandle ==
  /\ ipc = "handle"
  /\ IF api_result.ok
       THEN /\ LET r == _parse_eventstream_response(api_result.resp) IN
                 \* len(agent_output) in the success log (line 245), then return
                 outcome' = IF r.kind = "return" /\ r.val.t \notin {"str", "list"}
                              THEN Raised(Exc("TypeError",
                                              "object of type '" \o r.val.t
                                                \o "' has no len()"))
                              ELSE r
            /\ ipc' = "done"
            /\ UNCHANGED fail_codes
     ELSE IF api_result.code = "ReadTimeoutError"
       THEN /\ outcome' = Raised(Exc(api_result.code, "Read timeout on endpoint URL"))
            /\ ipc' = "done"
            /\ fail_codes' = fail_codes \cup {api_result.code}
     ELSE LET h == OnClientError(api_result.code, attempt) IN
            /\ outcome' = h.out
            /\ ipc' = h.next
            /\ fail_codes' = fail_codes \cup {api_result.code}
  /\ UNCHANGED <<ia_caller, inv_prompt, arg_session, session_id, attempt,
                 calls, wire, sleeps, api_result, last_request>>
  /\ UNCHANGED <<sharedVars, procVars, lambdaVars, fnVars>>

\* time.sleep(wait_time); continue
IaSleep ==
  /\ ipc = "sleep"
  /\ sleeps' = sleeps + 1
  /\ attempt' = attempt + 1
  /\ ipc' = "call"
  /\ UNCHANGED <<ia_caller, inv_prompt, arg_session, session_id, calls, wire,
                 fail_codes, api_result, last_request, outcome>>
  /\ UNCHANGED <<sharedVars, procVars, lambdaVars, fnVars>>

\* one step of a running invoke_agent; the runtime's answers come from outs
IaStepOn(outs) ==
  \/ \E o \in outs, k \in 1..SdkTotalAttempts : IaCall(o, k)
  \/ IaHandle
  \/ IaSleep

(***************************************************************************)
(* A caller of invoke_agent with arbitrary arguments                       *)
(***************************************************************************)
DirectInvoke ==
  /\ \E p \in Prompts, s \in SessionIds, h \in UuidDigits : IaBegin("direct", p, s, h)
  /\ UNCHANGED <<sharedVars, procVars, lambdaVars, fnVars>>

\* the caller takes the result; the warm process is ready for the next call
DirectReturn ==
  /\ ipc = "done"
  /\ ia_caller = "direct"
  /\ ipc' = "idle"
  /\ UNCHANGED <<ia_caller, inv_prompt, arg_session, session_id, attempt, calls,
                 wire, sleeps, fail_codes, api_result, last_request, outcome>>
  /\ UNCHANGED <<sharedVars, procVars, lambdaVars, fnVars>>

(***************************************************************************)
(* The process: its environment, the prompt cache and the clock            *)
(***************************************************************************)
DefaultDeployment ==
  Deployment("attachments-bucket", "cdn.example.com", "", LocalFile("file", LocalTemplate))

Deployments ==
  {DefaultDeployment,
   Deployment("attachments-bucket", "", "prompt-bucket", LocalFile("file", LocalTemplate)),
   Deployment("", "", "prompt-bucket", LocalFile("missing", <<>>)),
   Deployment("attachments-bucket", "cdn.example.com", "", LocalFile("file", RepoTemplate)),
   Deployment("", "cdn.example.com", "", LocalFile("unreadable", <<>>)),
   Deployment("", "", "", LocalFile("file", <<>>))}

\* the instants time.time() is read at
TimeGrid == {0, CACHE_TTL_SECONDS - 1, CACHE_TTL_SECONDS}

\* what a call of the prompts service did: the cache entry it found, the
\* result, the remote and local fetches it made,
\* and the answer o the remote store had for it
Loaded(op, prompt_name, use_cache, time, o, found, l) ==
  [op |-> op, name |-> prompt_name, use_cache |-> use_cache, time |-> time,
   answer |-> o, found |-> found, res |-> l.res, remote |-> l.remote,
   local |-> l.local]

NoLoad ==
  Loaded("", "", FALSE, 0, "", NoEntry, [res |-> Ok(<<>>), remote |-> 0, local |-> 0])

EmptyCache == [n \in PromptNames |-> NoEntry]

\* the callers that may be inside load_prompt at the same time
Callers == {1, 2}

ProcessInit(envs) ==
  /\ env \in envs
  /\ _prompt_cache = EmptyCache
  /\ clock = 0
  /\ last_load = NoLoad
  /\ cleared = EmptyCache
  /\ trace = <<>>
  /\ loads = [c \in Callers |-> [at |-> "idle", name |-> "", time |-> 0,
                                 use_cache |-> FALSE]]

(***************************************************************************)
(* domain/email_processor.py: EmailProcessor                               *)
(***************************************************************************)
\* an entry of the trace: the function called, the index in the batch of the
\* record it was called for (0: process_ses_record, which is handed one
\* record), and what the service behind the call answered ("": no service)
Called(op, at, answer) == [op |-> op, at |-> at, answer |-> answer]

ProcInit ==
  /\ ppc = "idle"
  /\ p_record = SqsRecord(FALSE, <<>>, FALSE, SqsBody("invalid", FALSE, "dict", BaseNotification))
  /\ message_id = <<>>
  /\ metadata = NoMetadata
  /\ email_content = Extracted(<<>>, <<>>, <<>>)
  /\ puts = <<>>
  /\ result = NoResult
  /\ p_raised = NoExc
  /\ p_escaped = NoExc

\* an except clause that handles ValueError and its subclasses only
Catches_only_value_errors(e) == IsInstance(e, "ValueError")

\* the except clause of process_ses_record's try block: except Exception
Catches(e) == IsInstance(e, "Exception")

\* a stage raised e: lines 80-87, or the exception leaves process_ses_record
ProcFail(id, e) ==
  /\ p_raised' = e
  /\ ppc' = "done"
  /\ IF Catches(e)
       THEN /\ result' = ProcessingResult(FALSE, id, FALSE, NoMetadata, FALSE, PyNone,
                                          TRUE, StrOfExc(e))
            /\ p_escaped' = NoExc
       ELSE /\ result' = NoResult
            /\ p_escaped' = e

\* process_ses_record lines 52-57: the message id, then _parse_ses_notification
ProcBegin(record) ==
  /\ ppc = "idle"
  /\ p_record' = record
  /\ message_id' = MessageIdOf(record)
  /\ LET r == _parse_ses_notification(record) IN
       IF r.ok
         THEN /\ metadata' = r.val
              /\ ppc' = "fetch"
              /\ UNCHANGED <<result, p_raised, p_escaped>>
         ELSE /\ ProcFail(MessageIdOf(record), r.exc)
              /\ UNCHANGED metadata
  /\ trace' = <<Called("_parse_ses_notification", 0, "")>>
  /\ UNCHANGED <<email_content, puts, env, _prompt_cache, clock, last_load, cleared, invVars>>
  /\ UNCHANGED <<lambdaVars, fnVars, loads>>

\* a fetch stage that goes on to the extraction whatever the fetch gave
_fetch_email_extracting_anyway(meta, o, email) ==
  [res |-> extract_email_body(email),
   called |-> <<Called("fetch_email_from_s3", 0, o), Called("extract_email_body", 0, "")>>]

\* EmailProcessor._fetch_email(metadata): get_object answers o; email is the
\* stored message
_fetch_email(meta, o, email) ==
  LET raw == fetch_email_from_s3(meta.bucket_name, meta.object_key, o, email)
      parsed == extract_email_body(email)
  IN [res |-> IF ~raw.ok THEN Fail(Extracted(<<>>, <<>>, <<>>), raw.exc) ELSE parsed,
      called |-> <<Called("fetch_email_from_s3", 0, o)>>
                   \o (IF raw.ok THEN <<Called("extract_email_body", 0, "")>> ELSE <<>>)]

\* process_ses_record lines 59-63
ProcFetch(o, email) ==
  /\ ppc = "fetch"
  /\ LET f == _fetch_email(metadata, o, email)
         r == f.res
     IN /\ trace' = trace \o f.called
        /\ IF r.ok
             THEN /\ email_content' = r.val
                  /\ ppc' = "upload"
                  /\ UNCHANGED <<result, p_raised, p_escaped>>
             ELSE /\ ProcFail(message_id, r.exc)
                  /\ UNCHANGED email_content
  /\ UNCHANGED <<p_record, message_id, metadata, puts, env, _prompt_cache, clock, last_load, cleared, invVars>>
  /\ UNCHANGED <<lambdaVars, fnVars, loads>>

\* process_ses_record line 66
ProcUpload(os) ==
  /\ ppc = "upload"
  /\ LET r == _upload_attachments(env, metadata, email_content, os) IN
       /\ email_content' = r.content
       /\ puts' = r.puts
       /\ IF r.exc = NoExc
            THEN ppc' = "agent" /\ UNCHANGED <<result, p_raised, p_escaped>>
            ELSE ProcFail(message_id, r.exc)
  /\ trace' = Append(trace, Called("_upload_attachments", 0, ""))
  /\ UNCHANGED <<p_record, message_id, metadata,
                 env, _prompt_cache, clock, last_load, cleared, invVars>>
  /\ UNCHANGED <<lambdaVars, fnVars, loads>>

RECURSIVE JoinLines(_)
JoinLines(lines) ==
  IF lines = <<>> THEN <<>>
  ELSE IF Len(lines) = 1 THEN Head(lines)
  ELSE Head(lines) \o <<"\n">> \o JoinLines(Tail(lines))

\* _create_github_issue_prompt lines 320-328
AttachmentsText(content) ==
  LET listed == attachments_with_urls(content) IN
    IF listed = <<>> THEN <<"None">>
    ELSE JoinLines([i \in 1..Len(listed) |->
                      <<"- ">> \o listed[i].filename
                        \o <<" (", listed[i].content_type, "): ">> \o listed[i].url])

\* _create_github_issue_prompt lines 331-338, on a loaded template
ProcessorPrompt(template, meta, content) ==
  format_prompt(template,
                [from_address |-> meta.from_address, subject |-> meta.subject,
                 body |-> body_for_agent(content), timestamp |-> meta.timestamp,
                 attachments |-> AttachmentsText(content)])

\* process_ses_record line 68 up to the call of invoke_agent: _invoke_agent and
\* _create_github_issue_prompt; the clock reads t, the prompt bucket answers o
ProcPrompt(t, o, h) ==
  /\ ppc = "agent"
  /\ IF ~has_content(email_content)
       THEN /\ result' = ProcessingResult(TRUE, message_id, TRUE, metadata, TRUE,
                                          PyStr("[Skipped] Email body is empty"),
                                          FALSE, "")
            /\ ppc' = "done"
            /\ UNCHANGED <<p_raised, p_escaped, _prompt_cache, clock, last_load, trace, invVars>>
       ELSE /\ t >= clock
            /\ clock' = t
            /\ LET name == "github_issue.txt"
                   l == load_prompt(env, name, _prompt_cache[name], t, o, TRUE)
                   f == ProcessorPrompt(l.res.val, metadata, email_content)
               IN /\ _prompt_cache' = [_prompt_cache EXCEPT ![name] = l.entry]
                  /\ last_load' = Loaded("load", name, TRUE, t, o, _prompt_cache[name], l)
                  /\ trace' = Append(trace, Called("load_prompt", 0, IF l.remote > 0 THEN o ELSE ""))
                                 \o (IF l.res.ok THEN <<Called("format_prompt", 0, "")>> ELSE <<>>)
                                 \o (IF l.res.ok /\ f.ok THEN <<Called("invoke_agent", 0, "")>>
                                     ELSE <<>>)
                  /\ IF ~l.res.ok
                       THEN ProcFail(message_id, l.res.exc) /\ UNCHANGED invVars
                     ELSE IF ~f.ok
                       THEN ProcFail(message_id, f.exc) /\ UNCHANGED invVars
                     ELSE /\ IaBegin("processor", PyStr(Join(f.val)), PyNone, h)
                          /\ ppc' = "invoking"
                          /\ UNCHANGED <<result, p_raised, p_escaped>>
  /\ UNCHANGED <<p_record, message_id, metadata, email_content, puts, env, cleared>>
  /\ UNCHANGED <<lambdaVars, fnVars, loads>>

\* invoke_agent ended: process_ses_record lines 68-78, or its except clause
ProcAgentDone ==
  /\ ppc = "invoking"
  /\ ipc = "done"
  /\ ia_caller = "processor"
  /\ IF outcome.kind = "raise"
       THEN ProcFail(message_id, outcome.exc)
       ELSE /\ result' = ProcessingResult(TRUE, message_id, TRUE, metadata, TRUE,
                                          outcome.val, FALSE, "")
            /\ ppc' = "done"
            /\ UNCHANGED <<p_raised, p_escaped>>
  /\ UNCHANGED <<p_record, message_id, metadata, email_content, puts,
                 env, _prompt_cache, clock, last_load, cleared, trace, invVars>>
  /\ UNCHANGED <<lambdaVars, fnVars, loads>>

\* the caller has the result; the locals are gone, the warm process goes on
ProcReturn ==
  /\ ppc = "done"
  /\ ppc' = "idle"
  /\ p_record' = SqsRecord(FALSE, <<>>, FALSE, SqsBody("invalid", FALSE, "dict", BaseNotification))
  /\ message_id' = <<>>
  /\ metadata' = NoMetadata
  /\ email_content' = Extracted(<<>>, <<>>, <<>>)
  /\ puts' = <<>>
  /\ result' = NoResult
  /\ p_raised' = NoExc
  /\ p_escaped' = NoExc
  /\ trace' = <<>>
  /\ InvForget
  /\ UNCHANGED <<env, _prompt_cache, clock, last_load, cleared, lambdaVars, fnVars, loads>>

(***************************************************************************)
(* sqs_email_handler.py: lambda_handler                                    *)
(***************************************************************************)
\* the next iteration, or the return, leaves nothing of the loop's locals
LambdaLocalsForget ==
  /\ h_message_id' = <<>>
  /\ h_fields' = [subject |-> <<>>, from_address |-> <<>>, to_addresses |-> Fld("absent", <<>>),
                 timestamp |-> <<>>, bucket_name |-> <<>>, object_key |-> <<>>]
  /\ email_body' = Extracted(<<>>, <<>>, <<>>)
  /\ agent_response' = PyNone

LambdaInit ==
  /\ hpc = "idle"
  /\ batch = <<>>
  /\ idx = 0
  /\ batch_item_failures = <<>>
  /\ h_response = <<>>
  /\ h_message_id = <<>>
  /\ h_fields = [subject |-> <<>>, from_address |-> <<>>, to_addresses |-> Fld("absent", <<>>),
                timestamp |-> <<>>, bucket_name |-> <<>>, object_key |-> <<>>]
  /\ email_body = Extracted(<<>>, <<>>, <<>>)
  /\ agent_response = PyNone

\* lambda_handler lines 36-42
LambdaBegin(records) ==
  /\ hpc \in {"idle", "returned"}
  /\ batch' = records
  /\ idx' = 1
  /\ batch_item_failures' = <<>>
  /\ h_response' = <<>>
  /\ LambdaLocalsForget
  /\ hpc' = IF records = <<>> THEN "return" ELSE "record"
  /\ trace' = <<>>
  /\ UNCHANGED <<env, _prompt_cache, clock, last_load, cleared, invVars>>
  /\ UNCHANGED <<procVars, fnVars, loads>>

\* the for loop goes on to the next record, or ends
Advance ==
  /\ idx' = idx + 1
  /\ hpc' = IF idx < Len(batch) THEN "record" ELSE "return"

\* the outer except clause (lines 185-188), then the next record
LambdaRecordFailed(id) ==
  /\ batch_item_failures' = Append(batch_item_failures, [itemIdentifier |-> id])
  /\ Advance

\* lines 43-97 for the record at hand
LambdaRecord ==
  /\ hpc = "record"
  /\ LET record == batch[idx]
         r == LambdaParse(record)
     IN /\ h_message_id' = MessageIdOf(record)
        /\ IF r.ok
             THEN /\ h_fields' = r.val
                  /\ hpc' = "fetch"
                  /\ UNCHANGED <<idx, batch_item_failures>>
             ELSE /\ LambdaRecordFailed(MessageIdOf(record))
                  /\ UNCHANGED h_fields
  /\ UNCHANGED <<batch, h_response, email_body, agent_response,
                 env, _prompt_cache, clock, last_load, cleared, trace, invVars>>
  /\ UNCHANGED <<procVars, fnVars, loads>>

\* lines 99-123: fetch the message and extract its body
LambdaFetch(o, email) ==
  /\ hpc = "fetch"
  /\ LET raw == fetch_email_from_s3(h_fields.bucket_name, h_fields.object_key, o, email)
         parsed == extract_email_body(email)
     IN /\ trace' = Append(trace, Called("fetch_email_from_s3", idx, o))
                       \o (IF raw.ok THEN <<Called("extract_email_body", idx, "")>> ELSE <<>>)
        /\ IF raw.ok /\ parsed.ok
             THEN /\ email_body' = parsed.val
                  /\ hpc' = "agent"
                  /\ UNCHANGED <<idx, batch_item_failures>>
             ELSE /\ LambdaRecordFailed(h_message_id)
                  /\ UNCHANGED email_body
  /\ UNCHANGED <<batch, h_response, h_message_id, h_fields, agent_response,
                 env, _prompt_cache, clock, last_load, cleared, invVars>>
  /\ UNCHANGED <<procVars, fnVars, loads>>

\* create_github_issue_prompt on a loaded template
create_github_issue_prompt(template, fields, body) ==
  format_prompt(template,
                [from_address |-> fields.from_address, subject |-> fields.subject,
                 body |-> body, timestamp |-> fields.timestamp,
                 repository |-> <<"bugs">>])

\* the except clauses of the inner try (lines 155-169)
AgentErrorResponse(e) ==
  PyStr((IF IsInstance(e, "ConfigurationError") THEN "[Configuration Error] "
         ELSE IF IsInstance(e, "AgentNotFoundException") THEN "[Agent Not Found] "
         ELSE IF IsInstance(e, "ThrottlingException") THEN "[Throttled] "
         ELSE IF IsInstance(e, "ValidationException") THEN "[Validation Error] "
         ELSE "[Error] ") \o StrOfExc(e))

\* lines 121-143: the prompt is made and invoke_agent is called, unless the
\* body is empty
LambdaPrompt(t, o, h) ==
  /\ hpc = "agent"
  /\ IF body_for_agent(email_body) = <<>>
       THEN /\ agent_response' = PyNone
            /\ hpc' = "log"
            /\ UNCHANGED <<_prompt_cache, clock, last_load, trace, invVars>>
       ELSE /\ t >= clock
            /\ clock' = t
            /\ LET name == "github_issue.txt"
                   l == load_prompt(env, name, _prompt_cache[name], t, o, TRUE)
                   f == create_github_issue_prompt(l.res.val, h_fields,
                                                   body_for_agent(email_body))
               IN /\ _prompt_cache' = [_prompt_cache EXCEPT ![name] = l.entry]
                  /\ last_load' = Loaded("load", name, TRUE, t, o, _prompt_cache[name], l)
                  /\ trace' = Append(trace, Called("load_prompt", idx, IF l.remote > 0 THEN o ELSE ""))
                                 \o (IF l.res.ok THEN <<Called("format_prompt", idx, "")>> ELSE <<>>)
                                 \o (IF l.res.ok /\ f.ok THEN <<Called("invoke_agent", idx, "")>>
                                     ELSE <<>>)
                  /\ IF ~l.res.ok
                       THEN /\ agent_response' = AgentErrorResponse(l.res.exc)
                            /\ hpc' = "log"
                            /\ UNCHANGED invVars
                     ELSE IF ~f.ok
                       THEN /\ agent_response' = AgentErrorResponse(f.exc)
                            /\ hpc' = "log"
                            /\ UNCHANGED invVars
                     ELSE /\ IaBegin("handler", PyStr(Join(f.val)), PyNone, h)
                          /\ hpc' = "invoking"
                          /\ UNCHANGED agent_response
  /\ UNCHANGED <<batch, idx, batch_item_failures, h_response, h_message_id,
                 h_fields, email_body, env, cleared>>
  /\ UNCHANGED <<procVars, fnVars, loads>>

\* invoke_agent ended: lines 145-169
LambdaAgentDone ==
  /\ hpc = "invoking"
  /\ ipc = "done"
  /\ ia_caller = "handler"
  /\ agent_response' = IF outcome.kind = "raise"
                         THEN AgentErrorResponse(outcome.exc)
                         ELSE outcome.val
  /\ hpc' = "log"
  /\ InvForget
  /\ UNCHANGED <<batch, idx, batch_item_failures, h_response, h_message_id,
                 h_fields, email_body, env, _prompt_cache, clock, last_load, cleared, trace>>
  /\ UNCHANGED <<procVars, fnVars, loads>>

\* lines 171-183: the record is logged as processed, then the next record
LambdaRecordDone ==
  /\ hpc = "log"
  /\ Advance
  /\ LambdaLocalsForget
  /\ UNCHANGED <<batch, batch_item_failures, h_response, env, _prompt_cache, clock, last_load, cleared, trace, invVars>>
  /\ UNCHANGED <<procVars, fnVars, loads>>

\* line 194
LambdaReturn ==
  /\ hpc = "return"
  /\ h_response' = <<[batchItemFailures |-> batch_item_failures]>>
  /\ hpc' = "returned"
  /\ LambdaLocalsForget
  /\ UNCHANGED <<batch, idx, batch_item_failures, env, _prompt_cache, clock, last_load, cleared, trace, invVars>>
  /\ UNCHANGED <<procVars, fnVars, loads>>

(***************************************************************************)
(* Specifications                                                          *)
(***************************************************************************)
vars == <<invVars, sharedVars, procVars, lambdaVars, fnVars>>

\* invoke_agent called with arbitrary arguments
InvokeInit ==
  InvInit /\ ProcessInit({DefaultDeployment}) /\ ProcInit /\ LambdaInit /\ FnInit

InvokeNext == DirectInvoke \/ IaStepOn(WireOutcomes) \/ DirectReturn

SpecInvoke == InvokeInit /\ [][InvokeNext]_vars

\* the records, stored messages and answers process_ses_record is run on
ProcRecords ==
  {SqsRecord(TRUE, <<"<", "m", "/", "1", ">">>, TRUE, b) :
     b \in {SqsBody("dict", FALSE, "dict", BaseNotification),
            SqsBody("dict", TRUE, "dict", BaseNotification),
            SqsBody("dict", FALSE, "dict", [BaseNotification EXCEPT !.has_mail = FALSE]),
            SqsBody("dict", FALSE, "dict", [BaseNotification EXCEPT !.has_receipt = FALSE]),
            SqsBody("dict", TRUE, "dict", [BaseNotification EXCEPT !.has_mail = FALSE]),
            SqsBody("dict", TRUE, "dict", [BaseNotification EXCEPT !.has_receipt = FALSE]),
            SqsBody("dict", FALSE, "dict", [BaseNotification EXCEPT !.mail_is_dict = FALSE]),
            SqsBody("dict", FALSE, "dict", [BaseNotification EXCEPT !.has_bucket = FALSE]),
            SqsBody("dict", FALSE, "dict", [BaseNotification EXCEPT !.bucketName = <<>>]),
            SqsBody("dict", FALSE, "dict", [BaseNotification EXCEPT !.has_key = FALSE]),
            SqsBody("dict", TRUE, "dict", [BaseNotification EXCEPT !.objectKey = <<>>]),
            SqsBody("invalid", FALSE, "dict", BaseNotification)}}
    \cup {SqsRecord(FALSE, <<>>, TRUE, SqsBody("dict", FALSE, "dict", BaseNotification)),
          SqsRecord(TRUE, <<"m2">>, FALSE, SqsBody("dict", FALSE, "dict", BaseNotification))}

\* the answers of the agent runtime the pipelines are run against
PipelineWireOutcomes ==
  {[ok |-> TRUE, code |-> "", resp |-> r] : r \in {x \in Responses :
                        /\ x.has_response
                        /\ x.body \in {Bytes("", TRUE),
                                       Bytes("{\"output\": \"Issue created\"}", TRUE),
                                       Bytes("{\"output\": 5}", TRUE)}}}
    \cup {WireErr("ResourceNotFoundException"), WireErr("ThrottlingException"),
          WireErr("AccessDeniedException"), WireErr("ReadTimeoutError")}

ProcessNext ==
  \/ \E r \in ProcRecords : ProcBegin(r)
  \/ \E o \in S3GetOutcomes, e \in Emails : ProcFetch(o, e)
  \/ \E os \in (IF is_configured(env) /\ email_content.attachments # <<>>
                   THEN [1..Len(email_content.attachments) -> PutOutcomes]
                   ELSE {<<>>}) :
       ProcUpload(os)
  \/ \E t \in TimeGrid, o \in RemoteOutcomes, h \in UuidDigits : ProcPrompt(t, o, h)
  \/ IaStepOn(PipelineWireOutcomes)
  \/ ProcAgentDone
  \/ ProcReturn

ProcessSpecInit ==
  InvInit /\ ProcessInit(Deployments) /\ ProcInit /\ LambdaInit /\ FnInit

SpecProcess == ProcessSpecInit /\ [][ProcessNext]_vars

\* the batches lambda_handler is run on
MaxBatch == 2

BatchRecords ==
  {SqsRecord(TRUE, <<"m1">>, TRUE, SqsBody("dict", FALSE, "dict", BaseNotification)),
   SqsRecord(TRUE, <<"m2">>, TRUE, SqsBody("invalid", FALSE, "dict", BaseNotification)),
   SqsRecord(TRUE, <<"m3">>, TRUE,
             SqsBody("dict", FALSE, "dict", [BaseNotification EXCEPT !.has_mail = FALSE]))}

BatchNext ==
  \/ \E b \in UNION {[1..n -> BatchRecords] : n \in 0..MaxBatch} : LambdaBegin(b)
  \/ LambdaRecord
  \/ \E o \in S3GetOutcomes,
          e \in {Email(FALSE, <<TextPart("text/plain", <<"Hello">>, TRUE)>>),
                 Email(FALSE, <<Part("application/pdf", "", <<>>, <<>>, TRUE,
                                     "pdf", 10)>>)} :
       LambdaFetch(o, e)
  \/ \E t \in TimeGrid, o \in RemoteOutcomes, h \in UuidDigits : LambdaPrompt(t, o, h)
  \/ IaStepOn(PipelineWireOutcomes)
  \/ LambdaAgentDone
  \/ LambdaRecordDone
  \/ LambdaReturn

BatchInit ==
  /\ InvInit /\ ProcInit /\ LambdaInit /\ FnInit
  /\ ProcessInit({DefaultDeployment,
                  Deployment("", "", "prompt-bucket", LocalFile("file", RepoTemplate))})

SpecBatch == BatchInit /\ [][BatchNext]_vars

(***************************************************************************)
(* The pure functions called on their own: format_prompt, and the           *)
(* properties of EmailContent                                              *)
(***************************************************************************)
\* the arguments the functions are called with
\* (templates; variables with values of plain text and of text holding
\* braces; contents with each body empty, plain or HTML)
FnInputs ==
  LET values == {<<>>, <<"hello">>, <<"{", "malicious", "}">>, <<"{", "subject", "}">>}
      texts == {<<>>, <<"plain text">>, <<"<p>", "html", "</p>">>}
      png == AttachmentDict(Part("image/png", "attachment", <<"a.png">>, <<>>,
                                 TRUE, "p1", 3))
  IN /\ fmt \in [template : {<<>>, <<Lit(<<"Static prompt.">>)>>, RemoteTemplate,
                              RepoTemplate,
                              <<Var("body"), Lit(<<" / ">>), Var("body")>>},
                  variables : UNION {[S -> values] :
                                       S \in SUBSET {"subject", "body", "extra"}},
                  res : {NotCalled}]
     /\ view \in [content : {Extracted(text, html, atts) :
                               text \in texts, html \in texts,
                               atts \in {<<>>, <<png>>}},
                   result : {ProcessingResult(TRUE, <<"m1">>, TRUE,
                                              MetadataOf(<<"m1">>, BaseNotification).val,
                                              TRUE, PyStr("Issue created"), FALSE, ""),
                             ProcessingResult(TRUE, <<"m1">>, FALSE, NoMetadata,
                                              FALSE, PyNone, FALSE, ""),
                             ProcessingResult(FALSE, <<"m1">>, FALSE, NoMetadata,
                                              FALSE, PyNone, TRUE, "S3 bucket not found: b"),
                             ProcessingResult(FALSE, <<>>, FALSE, NoMetadata,
                                              FALSE, PyNone, FALSE, "")},
                   email : {Email(TRUE, <<TextPart("text/plain", <<"first">>, TRUE),
                                          TextPart("text/plain", <<"second">>, TRUE),
                                          TextPart("text/html", <<"<", "b", ">", "one">>, TRUE),
                                          TextPart("text/html", <<"<", "i", ">", "two">>, TRUE)>>),
                            Email(TRUE, <<TextPart("text/plain", <<>>, TRUE),
                                          TextPart("text/plain", <<"second">>, TRUE)>>),
                            Email(TRUE, <<TextPart("text/html", <<>>, TRUE),
                                          TextPart("text/plain", <<"only">>, TRUE),
                                          TextPart("text/html", <<"<", "i", ">", "two">>, TRUE)>>),
                            Email(TRUE, <<TextPart("text/plain", <<"Hello  there">>, FALSE)>>),
                            Email(TRUE, <<TextPart("text/plain", <<"body">>, TRUE),
                                          Part("text/plain", "attachment", <<>>, <<"note">>,
                                               TRUE, "txt1", 4),
                                          Part("application/pdf",
                                               "attachment; filename=\"r.pdf\"",
                                               <<"r.pdf">>, <<>>, TRUE, "pdf2", 3)>>),
                            Email(FALSE, <<TextPart("text/plain", <<"Hello  there">>, FALSE)>>)},
                   props : {[called |-> FALSE, body_for_agent |-> <<>>,
                             has_content |-> FALSE, should_delete_message |-> FALSE,
                             extracted |-> Extracted(<<>>, <<>>, <<>>),
                             raised |-> NoExc]}]

\* format_prompt(template, **variables)
FormatCall ==
  /\ fmt.res = NotCalled
  /\ fmt' = [fmt EXCEPT !.res = format_prompt(fmt.template, fmt.variables)]
  /\ UNCHANGED <<view, invVars, sharedVars, procVars, lambdaVars>>

\* content.body_for_agent, content.has_content, result.should_delete_message
\* and extract_email_body(email)
ViewCall ==
  /\ ~view.props.called
  /\ view' = [view EXCEPT !.props =
                [called |-> TRUE, body_for_agent |-> body_for_agent(view.content),
                 has_content |-> has_content(view.content),
                 should_delete_message |-> should_delete_message(view.result),
                 extracted |-> extract_email_body(view.email).val,
                 raised |-> extract_email_body(view.email).exc]]
  /\ UNCHANGED <<fmt, invVars, sharedVars, procVars, lambdaVars>>

FunctionsNext == FormatCall \/ ViewCall

FunctionsInit ==
  InvInit /\ ProcessInit({DefaultDeployment}) /\ ProcInit /\ LambdaInit /\ FnInputs

SpecFunctions == FunctionsInit /\ [][FunctionsNext]_vars

(***************************************************************************)
(* The prompts service called on its own                                   *)
(***************************************************************************)
\* load_prompt(prompt_name, use_cache) (lines 107-174); the clock reads t and
\* the prompt bucket answers o
StoreLoad(prompt_name, t, o, use_cache) ==
  /\ t >= clock
  /\ clock' = t
  /\ LET l == load_prompt(env, prompt_name, _prompt_cache[prompt_name], t, o, use_cache)
     IN /\ _prompt_cache' = [_prompt_cache EXCEPT ![prompt_name] = l.entry]
        /\ last_load' = Loaded("load", prompt_name, use_cache, t, o,
                               _prompt_cache[prompt_name], l)
  /\ UNCHANGED <<env, cleared, trace, invVars, procVars, lambdaVars, fnVars, loads>>

\* a clear_cache that drops the entry of one prompt only
StoreClear_one_entry ==
  /\ _prompt_cache' = [_prompt_cache EXCEPT !["github_issue.txt"] = NoEntry]
  /\ cleared' = _prompt_cache
  /\ last_load' = Loaded("clear", "", FALSE, clock, "", NoEntry,
                         [res |-> Ok(<<>>), remote |-> 0, local |-> 0])
  /\ UNCHANGED <<env, clock, trace, invVars, procVars, lambdaVars, fnVars, loads>>

\* clear_cache() (lines 218-230)
StoreClear ==
  /\ _prompt_cache' = EmptyCache
  /\ cleared' = _prompt_cache
  /\ last_load' = Loaded("clear", "", FALSE, clock, "", NoEntry,
                         [res |-> Ok(<<>>), remote |-> 0, local |-> 0])
  /\ UNCHANGED <<env, clock, trace, invVars, procVars, lambdaVars, fnVars, loads>>

\* the clock is read over up to two lifetimes of an entry
StoreNext ==
  \/ \E n \in PromptNames, t \in TimeGrid \cup {2 * CACHE_TTL_SECONDS},
        o \in RemoteOutcomes, c \in BOOLEAN :
       StoreLoad(n, t, o, c)
  \/ StoreClear

\* deployments with and without a prompt bucket, with and without the file
StoreInit ==
  /\ InvInit /\ ProcInit /\ LambdaInit /\ FnInit
  /\ ProcessInit({Deployment("", "", b, f) :
                    b \in {"", "prompt-bucket"},
                    f \in {LocalFile("file", LocalTemplate), LocalFile("missing", <<>>)}}
                   \cup {Deployment("", "", "prompt-bucket",
                                    LocalFile("unreadable", <<>>))})

SpecPrompts == StoreInit /\ [][StoreNext]_vars

(***************************************************************************)
(* load_prompt entered by several callers of one process: nothing in the   *)
(* module takes a lock, so the steps of the calls interleave               *)
(***************************************************************************)
\* lines 123-141 for caller c: current_time = time.time() reads t, then the
\* cache check. A hit returns at once; otherwise the call goes on to the
\* sources with the time it read
LoadEnter(c, prompt_name, t, use_cache) ==
  /\ loads[c].at = "idle"
  /\ t >= clock
  /\ clock' = t
  /\ IF use_cache /\ CacheHit(_prompt_cache[prompt_name], t)
       THEN /\ last_load' = Loaded("load", prompt_name, use_cache, t, "",
                                   _prompt_cache[prompt_name],
                                   load_prompt(env, prompt_name,
                                               _prompt_cache[prompt_name], t, "",
                                               use_cache))
            /\ UNCHANGED loads
       ELSE /\ loads' = [loads EXCEPT ![c] =
                           [at |-> "sources", name |-> prompt_name, time |-> t,
                            use_cache |-> use_cache]]
            /\ UNCHANGED last_load
  /\ UNCHANGED <<env, _prompt_cache, cleared, trace, invVars, procVars, lambdaVars, fnVars>>

\* lines 143-174 for caller c: the sources are read (the prompt bucket
\* answers o) and line 172 stores the content with the time read at line 124;
\* a call that raises stores nothing
LoadLeave(c, o) ==
  /\ loads[c].at = "sources"
  /\ LET call == loads[c]
         l == load_prompt(env, call.name, _prompt_cache[call.name], call.time, o, FALSE)
     IN /\ _prompt_cache' = [_prompt_cache EXCEPT ![call.name] = l.entry]
        /\ last_load' = Loaded("load", call.name, call.use_cache, call.time, o,
                               _prompt_cache[call.name], l)
        /\ loads' = [loads EXCEPT ![c] = [at |-> "idle", name |-> "", time |-> 0,
                                          use_cache |-> FALSE]]
  /\ UNCHANGED <<env, clock, cleared, trace, invVars, procVars, lambdaVars, fnVars>>

\* the callers of the repository pass no use_cache: the default, True
RaceNext ==
  \/ \E c \in Callers, n \in PromptNames, t \in TimeGrid : LoadEnter(c, n, t, TRUE)
  \/ \E c \in Callers, o \in RemoteOutcomes : LoadLeave(c, o)

SpecRace == StoreInit /\ [][RaceNext]_vars

(***************************************************************************)
(* Claims                                                                  *)
(***************************************************************************)
\* C1: process_ses_record never lets an exception escape: whatever a stage
\* raises, it returns a ProcessingResult with success False, the record's
\* message id, and the string of that exception as its error_message.
C1_NoExceptionEscapes ==
  /\ p_escaped = NoExc
  /\ (ppc = "done" /\ p_raised # NoExc =>
        result = ProcessingResult(FALSE, MessageIdOf(p_record), FALSE, NoMetadata,
                                  FALSE, PyNone, TRUE, StrOfExc(p_raised)))

C1_Witness ==
  /\ ppc = "done"
  /\ calls > 0
  /\ p_raised.type = "AgentNotFoundException"
  /\ ~result.success
  /\ result.error_message = StrOfExc(p_raised)

\* C2: the batchItemFailures list of lambda_handler is always empty: no record
\* identifier is ever added to it, whatever fails for a record, and the
\* response carries an empty list.
C2_BatchFailuresAlwaysEmpty ==
  /\ batch_item_failures = <<>>
  /\ (h_response # <<>> => h_response[1].batchItemFailures = <<>>)

InvokeDone == ipc = "done" /\ ia_caller = "direct"

RaisedType(t) == outcome.kind = "raise" /\ outcome.exc.type = t

\* C3: invoke_agent performs zero retries: whatever error code an API call fails
\* with, the invocation makes exactly one API call and then fails, and it
\* never sleeps.
C3_ZeroRetries ==
  /\ sleeps = 0
  /\ calls <= 1
  /\ (InvokeDone /\ fail_codes \cap ErrorCodes # {} => calls = 1 /\ outcome.kind = "raise")

\* C4: an API call failing with ResourceNotFoundException ends invoke_agent with
\* AgentNotFoundException, and one failing with ThrottlingException ends it with
\* ThrottlingException (never with a returned response).
C4_ErrorTaxonomy ==
  InvokeDone =>
    /\ ("ResourceNotFoundException" \in fail_codes => RaisedType("AgentNotFoundException"))
    /\ ("ThrottlingException" \in fail_codes => RaisedType("ThrottlingException"))

\* C5: an API call failing with any other provider error code ends invoke_agent
\* with that ClientError re-raised unchanged, never with a domain error.
C5_OtherErrorsReraised ==
  InvokeDone =>
    \A c \in ErrorCodes \ {"ResourceNotFoundException", "ThrottlingException"} :
      c \in fail_codes => outcome = Raised(ClientError(c, "InvokeAgent"))

SessionOk(s) == IsStr(s) /\ Len(s.s) >= MinSessionLen

\* C6: a given session id that is not a string of at least 33 characters makes
\* invoke_agent raise ValidationException with no API call made; a given one of
\* 33 or more characters is the one every API call carries.
C6_SessionFloorEnforced ==
  /\ (ia_caller = "direct" /\ arg_session # PyNone /\ ~SessionOk(arg_session) =>
        /\ calls = 0
        /\ (ipc = "done" => RaisedType("ValidationException")))
  /\ (ia_caller = "direct" /\ arg_session # PyNone /\ calls > 0 =>
        last_request.sessionId = arg_session)

\* C7: a prompt that is not a non-empty string makes invoke_agent raise
\* ValidationException with no API call made.
C7_PromptValidated ==
  ia_caller = "direct" /\ ~(IsStr(inv_prompt) /\ inv_prompt.s # "") =>
    /\ calls = 0
    /\ (ipc = "done" => RaisedType("ValidationException"))

\* C8: a session id generated because none was given has at least 33
\* characters, and every session id an API call carries has at least 33.
C8_GeneratedSessionFloor ==
  /\ (arg_session = PyNone /\ ipc \in {"call", "handle", "sleep"} =>
        SessionOk(session_id))
  /\ (calls > 0 => SessionOk(last_request.sessionId))

C8_Witness ==
  /\ ia_caller = "direct"
  /\ arg_session = PyNone
  /\ calls > 0
  /\ last_request.sessionId = session_id
  /\ Len(session_id.s) = 44

\* C9: after a successful API call the result follows from the response body:
\* an empty body gives the empty string, a body that is valid JSON gives its
\* 'output' field, any other body is returned as its decoded text.
C9_ResultFromBody ==
  InvokeDone /\ api_result.ok /\ api_result.resp.has_response =>
    LET b == api_result.resp.body
        data == JsonLoads(b.text)
    IN IF b.text = "" THEN outcome = Returned(PyStr(""))
       ELSE IF b.utf8 /\ data.t # "JSONDecodeError"
         THEN /\ outcome.kind = "return"
              /\ (data.has_output => outcome.val = data.output)
       ELSE outcome = Returned(PyStr(b.text))

\* C10: the client makes at most one attempt per API call (no automatic
\* retries), so one invoke_agent call puts at most one request on the wire.
C10_SingleWireRequest ==
  /\ wire <= calls
  /\ wire <= 1

\* C11: every request invoke_agent sends is an invoke_agent_runtime request that
\* carries the configured agent runtime ARN, the session id of this call, and
\* the JSON text of {prompt} as its payload.
C11_RequestShape ==
  calls > 0 =>
    /\ last_request.op = "invoke_agent_runtime"
    /\ last_request.agentId = AGENT_RUNTIME_ARN
    /\ last_request.sessionId = session_id
    /\ last_request.inputText = payload(inv_prompt)

\* C12: a load_prompt(name) that finds an entry written at time t serves it with
\* no remote and no local fetch while the clock reads less than t + TTL, and
\* leaves the entry as it is; at t + TTL or later it reloads from the sources
\* once, and the entry it writes on success holds the reloaded content and the
\* time of that call.
C12_CacheTtl ==
  last_load.op = "load" /\ last_load.use_cache /\ last_load.found.has =>
    IF last_load.time < last_load.found.time + CACHE_TTL_SECONDS
      THEN /\ last_load.res = Ok(last_load.found.content)
           /\ last_load.remote = 0
           /\ last_load.local = 0
           /\ _prompt_cache[last_load.name] = last_load.found
      ELSE /\ last_load.remote + last_load.local >= 1
           /\ last_load.remote <= 1
           /\ last_load.local <= 1
           /\ (last_load.res.ok =>
                 _prompt_cache[last_load.name] = Entry(last_load.res.val, last_load.time))

C12_Witness ==
  /\ last_load.op = "load"
  /\ last_load.use_cache
  /\ last_load.found.has
  /\ last_load.found.time > 0
  /\ last_load.time = last_load.found.time + CACHE_TTL_SECONDS
  /\ last_load.res.ok
  /\ last_load.res.val # last_load.found.content
  /\ _prompt_cache[last_load.name] = Entry(last_load.res.val, last_load.time)

\* C13: clear_cache leaves the cache empty whatever it held (an empty cache
\* stays empty, and no error is raised), and the load_prompt that follows a
\* clear_cache, for any name, fetches from the sources and returns what they
\* hold now.
C13_ClearForcesReload ==
  /\ [](last_load.op = "clear" => _prompt_cache = EmptyCache /\ last_load.res.ok)
  /\ [][last_load.op = "clear" /\ last_load'.op = "load" =>
          /\ last_load'.remote + last_load'.local >= 1
          /\ last_load'.res =
               LoadFromSources(env, last_load'.name, last_load'.answer).res]_vars

C13_Witness ==
  /\ last_load.op = "load"
  /\ last_load.use_cache
  /\ ~last_load.found.has
  /\ cleared[last_load.name].has
  /\ last_load.time < cleared[last_load.name].time + CACHE_TTL_SECONDS
  /\ last_load.res.ok
  /\ last_load.res.val # cleared[last_load.name].content

\* a load_prompt call that did not serve from the cache
CacheMiss ==
  /\ last_load.op = "load"
  /\ ~(last_load.use_cache /\ CacheHit(last_load.found, last_load.time))

C15_RemoteErrorsSwallowed ==
  CacheMiss /\ env.PROMPT_BUCKET # "" /\ last_load.answer # "ok"
      /\ env.local.kind = "file" =>
    /\ last_load.res = Ok(env.local.tpl)
    /\ last_load.local = 1

\* C16: when the prompt can be had neither from the prompt bucket (none is
\* configured, or the remote fetch fails) nor from the local directory,
\* load_prompt raises a ValueError that names the prompt and returns no
\* template.
C16_NotFoundAnywhere ==
  CacheMiss /\ (env.PROMPT_BUCKET = "" \/ last_load.answer # "ok")
      /\ env.local.kind = "missing" =>
    last_load.res =
      Fail(<<>>, Exc("ValueError",
                     "Prompt '" \o last_load.name
                       \o "' not found in S3 or local filesystem"))

\* the placeholders a template references
Referenced(template) ==
  {template[i].name : i \in {j \in 1..Len(template) : template[j].k = "var"}}

\* C17: format_prompt on a template that references a placeholder with no
\* supplied value raises a ValueError naming a missing variable and gives no
\* text; when every placeholder has a value, the result is the one the
\* referenced variables alone give (the others are ignored).
C17_MissingVariableRejected ==
  fmt.res # NotCalled =>
    LET missing == Referenced(fmt.template) \ DOMAIN fmt.variables
        used == [n \in DOMAIN fmt.variables \cap Referenced(fmt.template) |->
                   fmt.variables[n]]
    IN IF missing # {}
         THEN /\ ~fmt.res.ok
              /\ fmt.res.val = <<>>
              /\ fmt.res.exc.type = "ValueError"
              /\ \E m \in missing :
                   fmt.res.exc.msg = "Missing required variable in prompt: " \o m
         ELSE /\ fmt.res.ok
              /\ fmt.res = format_prompt(fmt.template, used)

C17_Witness ==
  /\ fmt.template = RepoTemplate
  /\ DOMAIN fmt.variables = {"body", "extra"}
  /\ fmt.res = Fail(<<>>, Exc("ValueError",
                              "Missing required variable in prompt: repository"))

\* C18: a value holding brace characters appears in format_prompt's output as
\* literal text exactly as supplied (its braces are neither read as a
\* placeholder nor doubled), and which placeholders get filled does not depend
\* on the values.
C18_BracesLiteral ==
  fmt.res # NotCalled =>
    /\ (fmt.res.ok <=> Referenced(fmt.template) \subseteq DOMAIN fmt.variables)
    /\ (fmt.res.ok =>
          Join(fmt.res.val) = Join(Substitute(fmt.template, fmt.variables).val))

\* C19: body_for_agent of an EmailContent is its text_body when that is not
\* empty, else its html_body (the empty string when both are empty), and
\* has_content is true exactly when one of the two bodies is not empty.
C19_BodyForAgent ==
  view.props.called =>
    /\ (view.content.text_body # <<>> =>
          view.props.body_for_agent = view.content.text_body)
    /\ (view.content.text_body = <<>> =>
          view.props.body_for_agent = view.content.html_body)
    /\ (view.props.has_content <=>
          (view.content.text_body # <<>> \/ view.content.html_body # <<>>))

C19_Witness ==
  /\ view.props.called
  /\ view.content.text_body # <<>>
  /\ view.content.html_body # <<>>
  /\ view.content.html_body # view.content.text_body
  /\ view.props.body_for_agent = view.content.text_body
  /\ view.props.has_content

\* the extracted email has an empty text body and an empty HTML body
EmptyBodies == email_content.text_body = <<>> /\ email_content.html_body = <<>>

\* C20: when the extracted email has an empty text body and an empty HTML body,
\* the agent step of process_ses_record loads no prompt template and calls no
\* agent transport: it ends the call with success True and the skip sentinel
\* as agent_response.
C20_EmptyBodySkipsAgent ==
  /\ [](ppc = "done" /\ p_raised = NoExc /\ EmptyBodies =>
          /\ result.success
          /\ result.agent_response = PyStr("[Skipped] Email body is empty")
          /\ calls = 0)
  /\ [][ppc = "agent" /\ EmptyBodies =>
          /\ ppc' = "done"
          /\ last_load' = last_load
          /\ _prompt_cache' = _prompt_cache
          /\ calls' = calls
          /\ wire' = wire
          /\ ipc' = ipc]_vars

C20_Witness ==
  /\ ppc = "done"
  /\ p_raised = NoExc
  /\ EmptyBodies
  /\ result.success
  /\ result.agent_response = PyStr("[Skipped] Email body is empty")
  /\ last_load = NoLoad
  /\ calls = 0

\* the record process_ses_record is running on holds a notification, direct or
\* inside an SNS envelope, that json.loads gives as an object
NotificationAtHand ==
  /\ ppc # "idle"
  /\ p_record.has_body
  /\ p_record.body.kind = "dict"
  /\ ~(p_record.body.wrapped /\ p_record.body.inner = "invalid")

\* C21: a notification, direct or unwrapped from the SNS envelope, that lacks
\* the mail section or the receipt section makes _parse_ses_notification raise
\* ValueError and give no EmailMetadata, partial or whole; process_ses_record
\* then returns success=False without metadata, and fetch_email_from_s3 is not
\* called for the record.
C21_MissingSectionsRejected ==
  (NotificationAtHand /\ (~p_record.body.n.has_mail \/ ~p_record.body.n.has_receipt))
    => /\ ppc = "done"
       /\ p_raised = Exc("ValueError", "SES notification missing 'mail' or 'receipt' fields")
       /\ metadata = NoMetadata
       /\ ~result.success /\ ~result.has_metadata
       /\ result.has_error_message
       /\ \A i \in 1..Len(trace) : trace[i].op = "_parse_ses_notification"

\* an SNS-wrapped notification without its receipt section has been rejected
C21_Witness ==
  /\ NotificationAtHand
  /\ p_record.body.wrapped
  /\ p_record.body.n.has_mail /\ ~p_record.body.n.has_receipt
  /\ ppc = "done"
  /\ ~result.success
  /\ trace = <<Called("_parse_ses_notification", 0, "")>>

\* C22: the EmailMetadata _parse_ses_notification returns always has a
\* non-empty bucket_name and a non-empty object_key; when the receipt's action
\* lacks bucketName or objectKey, or holds an empty one, the parse raises
\* ValueError and no metadata is returned.
C22_LocationNonEmpty ==
  /\ metadata # NoMetadata
       => metadata.bucket_name # <<>> /\ metadata.object_key # <<>>
  /\ result.has_metadata
       => result.metadata.bucket_name # <<>> /\ result.metadata.object_key # <<>>
  /\ (/\ NotificationAtHand
      /\ p_record.body.n.has_mail /\ p_record.body.n.has_receipt
      /\ p_record.body.n.mail_is_dict
      /\ \/ ~p_record.body.n.has_bucket \/ p_record.body.n.bucketName = <<>>
         \/ ~p_record.body.n.has_key \/ p_record.body.n.objectKey = <<>>)
       => /\ ppc = "done"
          /\ p_raised = Exc("ValueError", "Missing S3 location in SES notification")
          /\ metadata = NoMetadata
          /\ ~result.has_metadata

\* a notification whose objectKey is the empty string has been rejected
C22_Witness ==
  /\ NotificationAtHand
  /\ p_record.body.n.has_key /\ p_record.body.n.objectKey = <<>>
  /\ ppc = "done"
  /\ p_raised.type = "ValueError"
  /\ metadata = NoMetadata

\* process_ses_record is past its call of _upload_attachments
Published == \E i \in 1..Len(trace) : trace[i].op = "_upload_attachments"

\* C23: no put_object is made for content larger than MAX_FILE_SIZE_BYTES and
\* the url of such an attachment stays unset; for an attachment of exactly
\* MAX_FILE_SIZE_BYTES bytes put_object is called, and its url is set when the
\* put succeeds.
C23_SizeCeiling ==
  /\ \A j \in 1..Len(puts) : puts[j].body.len <= MAX_FILE_SIZE_BYTES
  /\ \A i \in 1..Len(email_content.attachments) :
       LET a == email_content.attachments[i] IN
         /\ a.size > MAX_FILE_SIZE_BYTES => ~a.has_url /\ a.url = <<>>
         /\ (a.size = MAX_FILE_SIZE_BYTES /\ is_configured(env) /\ Published)
              => \E j \in 1..Len(puts) :
                   /\ puts[j].body.len = MAX_FILE_SIZE_BYTES
                   /\ puts[j].ok <=> a.has_url

\* a message with one attachment over the ceiling and one at the ceiling has
\* been through the uploads: the first was skipped, the second was put
C23_Witness ==
  /\ Published
  /\ \E i, k \in 1..Len(email_content.attachments) :
       /\ email_content.attachments[i].size = MAX_FILE_SIZE_BYTES + 1
       /\ ~email_content.attachments[i].has_url
       /\ email_content.attachments[i].has_content
       /\ email_content.attachments[k].size = MAX_FILE_SIZE_BYTES
       /\ email_content.attachments[k].has_url
  /\ \E j \in 1..Len(puts) : puts[j].body.len = MAX_FILE_SIZE_BYTES /\ puts[j].ok

\* C24: a put_object that fails, with an error response of the service or with
\* a transport error, never fails process_ses_record: upload_attachment
\* returns None, the attachment keeps its content and has no url, the
\* attachments after it are still put, and when _upload_attachments is the
\* last call made nothing was raised: the run stands before its prompt stage,
\* or has ended with success on a message without a body.
C24_UploadFailuresContained ==
  Published =>
    /\ \A j \in 1..Len(puts) :
         ~puts[j].ok =>
           \E i \in 1..Len(email_content.attachments) :
             /\ email_content.attachments[i].has_content
             /\ email_content.attachments[i].content = puts[j].body
             /\ ~email_content.attachments[i].has_url
    /\ is_configured(env) =>
         Len(puts) = Cardinality({i \in 1..Len(email_content.attachments) :
                                    email_content.attachments[i].size <= MAX_FILE_SIZE_BYTES})
    /\ trace[Len(trace)].op = "_upload_attachments"
         => /\ p_raised = NoExc
            /\ ppc = "agent" \/ (ppc = "done" /\ result.success /\ EmptyBodies)
    /\ p_raised.type \notin {"ClientError", "EndpointConnectionError"}
         \/ \E i \in 1..Len(trace) : trace[i].op \in {"load_prompt", "invoke_agent"}

\* the first of two puts failed with a transport error, the second was made
\* all the same, and the run went on to call the agent and succeeded
C24_Witness ==
  /\ Len(puts) = 2
  /\ ~puts[1].ok /\ puts[2].ok
  /\ \E i \in 1..Len(trace) : trace[i].op = "invoke_agent"
  /\ ppc = "done"
  /\ result.success

\* C25: should_delete_message is True for every ProcessingResult, one with
\* success=True as well as one with success=False, with or without metadata,
\* agent_response and error_message.
C25_AlwaysDelete ==
  view.props.called => view.props.should_delete_message = TRUE

\* the property has been read on a result with success=False
C25_Witness ==
  /\ view.props.called
  /\ ~view.result.success
  /\ view.result.has_error_message
  /\ view.props.should_delete_message

\* C26: when the record is well-formed, its message is fetched and has a body,
\* the agent is called and the runtime answers the call with a response,
\* process_ses_record returns success=True with agent_response set to the
\* output the response carries, and should_delete_message is True.
C26_EndToEndSuccess ==
  (/\ ppc = "done"
   /\ metadata # NoMetadata
   /\ ~EmptyBodies
   /\ ia_caller = "processor" /\ ipc = "done"
   /\ api_result.ok /\ api_result.resp.has_response)
    => LET b == api_result.resp.body
           data == JsonLoads(b.text)
       IN /\ result.success
          /\ result.has_agent_response
          /\ result.agent_response = IF b.text = "" THEN PyStr("") ELSE data.output
          /\ ~result.has_error_message
          /\ should_delete_message(result)

\* C27: when get_object answers the fetch of a record's message with NoSuchKey
\* or NoSuchBucket, process_ses_record makes no further call, returns
\* success=False with a non-empty error_message, should_delete_message is still
\* True, and invoke_agent is not called for the record.
C27_BlobNotFound ==
  \A i \in 1..Len(trace) :
    (trace[i].op = "fetch_email_from_s3" /\ trace[i].answer \in {"NoSuchKey", "NoSuchBucket"})
      => /\ i = Len(trace)
         /\ ppc = "done"
         /\ ~result.success
         /\ result.has_error_message /\ result.error_message # ""
         /\ ~result.has_agent_response
         /\ should_delete_message(result)
         /\ ipc = "idle" /\ calls = 0 /\ wire = 0

\* the bucket of the record's message does not exist: the run has failed
C27_Witness ==
  /\ ppc = "done"
  /\ trace = <<Called("_parse_ses_notification", 0, ""),
               Called("fetch_email_from_s3", 0, "NoSuchBucket")>>
  /\ ~result.success
  /\ result.error_message = "S3 bucket not found: ses-emails"

\* C28: extract_email_body on a multipart message gives the content of the
\* first text/plain part as text_body and ignores every later text/plain part,
\* whatever the first part holds, an empty text included; and likewise the
\* first text/html part as html_body.
C28_FirstMatchWins ==
  (view.props.called /\ view.email.multipart) =>
    LET parts == view.email.parts
        first(ctype) == CHOOSE i \in 1..Len(parts) :
                          /\ parts[i].ctype = ctype
                          /\ \A j \in 1..(i - 1) : parts[j].ctype # ctype
        has(ctype) == \E i \in 1..Len(parts) : parts[i].ctype = ctype
    IN /\ has("text/plain")
            => view.props.extracted.text_body = parts[first("text/plain")].text
       /\ has("text/html")
            => view.props.extracted.html_body = parts[first("text/html")].text

\* C29: lambda_handler works through the batch in record order, one record at
\* a time: the calls it makes are ordered by record, a record is taken up only
\* when no call for an earlier record is in progress, every well-formed record
\* it is done with caused exactly one fetch of its message, and a record with a
\* body causes exactly one call of the agent runtime.
C29_SequentialBatch ==
  LET Count(op, k) == Cardinality({i \in 1..Len(trace) :
                                     trace[i].op = op /\ trace[i].at = k})
  IN /\ \A i, j \in 1..Len(trace) : i < j => trace[i].at <= trace[j].at
     /\ \A i \in 1..Len(trace) : trace[i].at \in 1..Len(batch) /\ trace[i].at <= idx
     /\ hpc = "record" => ipc = "idle" /\ \A i \in 1..Len(trace) : trace[i].at < idx
     /\ hpc \in {"fetch", "agent", "log"} => ipc = "idle"
     /\ \A k \in 1..Len(batch) :
          /\ Count("fetch_email_from_s3", k) <= 1
          /\ Count("invoke_agent", k) <= 1
          /\ (/\ LambdaParse(batch[k]).ok
              /\ k < idx \/ (k = idx /\ hpc \in {"agent", "invoking", "log"}))
               => Count("fetch_email_from_s3", k) = 1
          /\ ~LambdaParse(batch[k]).ok => Count("fetch_email_from_s3", k) = 0
     /\ hpc = "invoking" => Count("invoke_agent", idx) = 1
     /\ (hpc = "invoking" /\ ipc = "done") => calls = 1

\* C30: process_ses_record makes its calls in the order parse, fetch, extract,
\* upload attachments, load prompt, format prompt, invoke agent, and the first
\* stage that fails is the last that runs: a parse failure is followed by no
\* fetch, a fetch or extraction failure by no upload, a prompt load or format
\* failure by no agent call.
C30_StagesInOrder ==
  LET Order == <<"_parse_ses_notification", "fetch_email_from_s3", "extract_email_body",
                 "_upload_attachments", "load_prompt", "format_prompt", "invoke_agent">>
      n == Len(trace)
      Stopped == ppc = "done" /\ ~result.success /\ ipc = "idle" /\ calls = 0
  IN /\ n <= Len(Order)
     /\ \A i \in 1..n : trace[i].op = Order[i]
     /\ ipc # "idle" => n = 7
     /\ puts # <<>> => n >= 4
     /\ (ppc # "idle" /\ ~_parse_ses_notification(p_record).ok)
          => Stopped /\ n = 1 /\ puts = <<>>
     /\ (n >= 2 /\ trace[2].answer # "ok")
          => Stopped /\ n = 2 /\ puts = <<>>
     /\ p_raised.type = "LookupError"
          => Stopped /\ n = 3 /\ puts = <<>>
     /\ (n >= 5 /\ ~last_load.res.ok)
          => Stopped /\ n = 5
     /\ (n >= 5 /\ last_load.res.ok
           /\ ~ProcessorPrompt(last_load.res.val, metadata, email_content).ok)
          => Stopped /\ n = 6

\* an attachment was put and the prompt template was loaded, then
\* format_prompt failed: the run ended there and the agent was not called
C30_Witness ==
  /\ ppc = "done"
  /\ Len(trace) = 6
  /\ trace[6].op = "format_prompt"
  /\ last_load.res.ok
  /\ puts # <<>>
  /\ p_raised.type = "ValueError"
  /\ ~result.success
  /\ calls = 0

\* C31: every attachment of the message at hand has its url set exactly when
\* its content has been cleared; one that was not put (upload not configured,
\* content over the ceiling) or whose put failed keeps its content and has no
\* url; and a url, once set, stays as it is until the run is over.
C31_AttachmentLifecycle ==
  /\ [](\A i \in 1..Len(email_content.attachments) :
          LET a == email_content.attachments[i] IN
            /\ a.has_url <=> ~a.has_content
            /\ a.has_url <=> a.url # <<>>
            /\ a.has_url => a.content = [id |-> "", len |-> 0]
            /\ (~is_configured(env) \/ a.size > MAX_FILE_SIZE_BYTES) => ~a.has_url
            /\ a.has_url => \E j \in 1..Len(puts) : puts[j].ok /\ puts[j].body.len = a.size
            /\ (\E j \in 1..Len(puts) : ~puts[j].ok /\ puts[j].body = a.content)
                 => a.has_content /\ ~a.has_url)
  /\ [][\A i \in 1..Len(email_content.attachments) :
          email_content.attachments[i].has_url
            => \/ ppc' = "idle"
               \/ /\ Len(email_content'.attachments) = Len(email_content.attachments)
                  /\ email_content'.attachments[i] = email_content.attachments[i]]_vars

\* after the uploads one attachment has a url and no content, another, over
\* the ceiling, has its content and no url, and the run has come to its end
C31_Witness ==
  /\ Published
  /\ ppc = "done"
  /\ \E i, k \in 1..Len(email_content.attachments) :
       /\ email_content.attachments[i].has_url
       /\ ~email_content.attachments[i].has_content
       /\ email_content.attachments[k].size > MAX_FILE_SIZE_BYTES
       /\ email_content.attachments[k].has_content
       /\ ~email_content.attachments[k].has_url

\* C32: the attachments text in the prompt handed to the agent has one bullet
\* "- filename (content_type): url" for each attachment that has a url after the
\* uploads, in the order of the message, and nothing for the others; when no
\* attachment has a url the text is "None".
C32_AttachmentSummary ==
  (ppc = "invoking" /\ ia_caller = "processor") =>
    LET listed == SelectSeq(email_content.attachments, LAMBDA a : a.has_url)
        summary == IF listed = <<>> THEN <<"None">>
                   ELSE JoinLines([i \in 1..Len(listed) |->
                                     <<"- ">> \o listed[i].filename
                                       \o <<" (", listed[i].content_type, "): ">>
                                       \o listed[i].url])
        expected == format_prompt(last_load.res.val,
                                  [from_address |-> metadata.from_address,
                                   subject |-> metadata.subject,
                                   body |-> body_for_agent(email_content),
                                   timestamp |-> metadata.timestamp,
                                   attachments |-> summary])
    IN /\ expected.ok
       /\ inv_prompt = PyStr(Join(expected.val))

\* the prompt of a message with three attachments, two of them published and
\* one over the ceiling, came from a template that holds {attachments}
C32_Witness ==
  /\ ppc = "invoking" /\ ia_caller = "processor"
  /\ last_load.res.val = LocalTemplate
  /\ Len(email_content.attachments) = 3
  /\ email_content.attachments[1].has_url
  /\ ~email_content.attachments[2].has_url
  /\ email_content.attachments[3].has_url

\* C33: extract_email_body raises nothing when the content of a text part
\* cannot be decoded, in a multipart message and in a message of one part
\* alike: the body is the payload decoded as UTF-8 with its invalid bytes
\* dropped, and a result is returned.
C33_DecodeFallback ==
  (/\ view.props.called
   /\ \E i \in 1..Len(view.email.parts) : ~view.email.parts[i].decodes)
    => /\ view.props.raised = NoExc
       /\ view.props.extracted.text_body = view.email.parts[1].text

\* C34: in a multipart message every part whose Content-Disposition holds
\* "attachment" gives exactly one attachment descriptor, with its filename,
\* content type, decoded payload and the payload's length, a part without a
\* filename included; and the text of such a part is in neither body.
C34_AttachmentParts ==
  (view.props.called /\ view.email.multipart) =>
    LET parts == view.email.parts
        declared == SelectSeq(parts, LAMBDA p : DispHas(p, "attachment"))
        bodies == SelectSeq(parts, LAMBDA p : ~DispHas(p, "attachment"))
    IN /\ view.props.extracted.attachments
            = [i \in 1..Len(declared) |->
                 [filename |-> declared[i].filename, content_type |-> declared[i].ctype,
                  size |-> declared[i].payload.len, has_content |-> TRUE,
                  content |-> declared[i].payload, has_url |-> FALSE, url |-> <<>>]]
       /\ \A i \in 1..Len(declared) :
            declared[i].text # <<>>
              => /\ view.props.extracted.text_body # declared[i].text
                 /\ view.props.extracted.html_body # declared[i].text
       /\ view.props.extracted.text_body # <<>>
            => \E i \in 1..Len(bodies) : bodies[i].text = view.props.extracted.text_body

\* C35: when ATTACHMENTS_S3_BUCKET or ATTACHMENTS_CLOUDFRONT_DOMAIN is not
\* set, _upload_attachments makes no put_object call and leaves every
\* attachment as it was extracted, with its content and without a url, and
\* process_ses_record goes on to its prompt stage.
C35_UploadNeedsBothSettings ==
  /\ []((env.ATTACHMENTS_BUCKET = "" \/ env.CLOUDFRONT_DOMAIN = "") =>
          /\ puts = <<>>
          /\ \A i \in 1..Len(email_content.attachments) :
               /\ email_content.attachments[i].has_content
               /\ ~email_content.attachments[i].has_url
               /\ email_content.attachments[i].url = <<>>)
  /\ [][(ppc = "upload" /\ (env.ATTACHMENTS_BUCKET = "" \/ env.CLOUDFRONT_DOMAIN = "")) =>
          /\ email_content' = email_content
          /\ puts' = puts
          /\ p_raised' = NoExc
          /\ ppc' = "agent"]_vars

\* with the bucket set and the domain not set, a message with attachments went
\* through the upload stage untouched and its prompt went to the agent
C35_Witness ==
  /\ env.ATTACHMENTS_BUCKET # "" /\ env.CLOUDFRONT_DOMAIN = ""
  /\ Published
  /\ Len(email_content.attachments) >= 2
  /\ puts = <<>>
  /\ ppc = "invoking"

C37_FailedLoadKeepsCache ==
  /\ []((last_load.op = "load" /\ ~last_load.res.ok) =>
          /\ _prompt_cache[last_load.name] = last_load.found
          /\ last_load.remote + last_load.local >= 1
          /\ last_load.found.has =>
               (~last_load.use_cache
                  \/ last_load.time - last_load.found.time >= CACHE_TTL_SECONDS))
  /\ [][(last_load'.op = "load" /\ ~last_load'.res.ok) =>
          _prompt_cache' = _prompt_cache]_vars
  /\ [][(/\ last_load.op = "load" /\ ~last_load.res.ok
          /\ \/ ~last_load.found.has
             \/ last_load.time - last_load.found.time >= CACHE_TTL_SECONDS
          /\ last_load'.op = "load" /\ last_load'.name = last_load.name
          /\ last_load' # last_load)
          => last_load'.remote + last_load'.local >= 1]_vars

\* a load found an expired entry and failed on a transport error of the
\* bucket: the expired entry is still in the cache
C37_Witness ==
  /\ last_load.op = "load"
  /\ ~last_load.res.ok
  /\ last_load.use_cache
  /\ last_load.found.has
  /\ last_load.time - last_load.found.time >= CACHE_TTL_SECONDS
  /\ _prompt_cache[last_load.name] = last_load.found

\* C38: the attachments of one message that are put in one run of
\* _upload_attachments go to pairwise distinct keys
\* attachments/{ENVIRONMENT}/{message id}/{filename}, so that no put
\* overwrites another and no two attachments have the same url.
C38_DistinctKeys ==
  /\ \A i, j \in 1..Len(puts) :
       (i # j /\ puts[i].ok /\ puts[j].ok) => puts[i].key # puts[j].key
  /\ \A i, k \in 1..Len(email_content.attachments) :
       (i # k /\ email_content.attachments[i].has_url
              /\ email_content.attachments[k].has_url)
         => email_content.attachments[i].url # email_content.attachments[k].url

\* C39: when calls of load_prompt interleave on the shared cache, every
\* change of the entry of a name is the write of one load that finished: the
\* entry holds the content that load returned and the time that load read;
\* and the timestamp of an entry never moves backwards: a load that started
\* earlier never replaces the entry of a load that started later
C39_EntryNeverMovesBack ==
  /\ [][\A n \in PromptNames :
          _prompt_cache'[n] # _prompt_cache[n] =>
            /\ last_load'.name = n /\ last_load'.res.ok
            /\ _prompt_cache'[n] = Entry(last_load'.res.val, last_load'.time)]_vars
  /\ [][\A n \in PromptNames :
          _prompt_cache[n].has /\ _prompt_cache'[n].has =>
            _prompt_cache'[n].time >= _prompt_cache[n].time]_vars

====
